---- MODULE Spec2Model ----
(***************************************************************************)
(* Workflow orchestration core of pydantic_deep.orchestration:             *)
(* StateManager (state.py), WorkflowState (models.py), TaskRouter          *)
(* (routing.py), the four executors (executor.py) and the coordinator's    *)
(* execute_workflow and per-task driver execute_task (coordinator.py).     *)
(*                                                                         *)
(* The program is single-threaded asyncio: the code between two awaits is  *)
(* one atomic step.  Every action below is one such step of a coroutine:   *)
(* the executor, a driver (execute_task), or the workflow deadline.        *)
(***************************************************************************)
EXTENDS Integers, Sequences, FiniteSets, Bags, TLC

(***************************************************************************)
(* Bounds of the model.                                                    *)
(***************************************************************************)
\* retry_config.max_retries of a task is drawn from 0..MaxRetries
MaxRetries == 1
\* workflow.max_parallel_tasks is drawn from 1..MaxParallel
MaxParallel == 2
\* the agent stub fails at most MaxFail calls in a run
MaxFail == 2

\* under direct calls the load counter of an executor id goes up to MaxLoad
MaxLoad == 2

\* a cache under direct calls serves at most MaxOps calls
MaxOps == 3

\* a cache with TTL and disk tier serves at most MaxTierOps calls, while the
\* clock goes up to MaxClock
MaxTierOps == 4
MaxClock == 2

\* a cache driven to its capacity serves at most MaxLruOps calls
MaxLruOps == 4

\* at most MaxRaise calls of the progress callback raise in a run
MaxRaise == 1

\* where the agent stub may fail without bound, the counters of the run
\* are kept up to MaxCount
MaxCount == 1

\* where the backoff delays are followed, max_retries goes up to
\* MaxBackoffRetries
MaxBackoffRetries == 3
\* an ApprovalChain has at most MaxSteps steps
MaxSteps == 3
\* escalate is called at most MaxEscalations times on one request
MaxEscalations == 2
\* a process instance records at most MaxHistory transition events
MaxHistory == 3
\* at most MaxViolations SLAs of a process are completed after their deadline
MaxViolations == 1

TaskIds == {"A", "B", "C"}

\* messages written by the code
ErrPrevFailed == "Previous task failed"
ErrCondition == "Condition not met"
ErrDeps == "Dependencies not satisfied"
ErrCycle == "Circular dependency detected in workflow"
ErrAgent == "boom"
ErrTasksFailed == "One or more tasks failed"
ErrTimedOut == "Workflow execution timed out"
ErrCancelled == "Workflow cancelled by user"
\* str(e) of the exception a progress callback raises
ErrCallback == "callback broke"

(***************************************************************************)
(* Workflow definitions (models.py: TaskDefinition, WorkflowDefinition).   *)
(* depends_on is a list per task; condition is None or a string, modelled  *)
(* by is_none (the condition is None), set (the string is not empty, which *)
(* is what "if task.condition" tests) and the set ids of the task ids that *)
(* occur in it.  timeout_seconds of a task is None (FALSE) or a number of  *)
(* seconds (TRUE).                                                         *)
(***************************************************************************)
NoDeps == [t \in TaskIds |-> << >>]

\* RetryConfig defaults; delays are in tenths of a second
DefaultBackoffMultiplier == 2
DefaultInitialDelay == 10
DefaultMaxDelay == 600
DefaultRetryConfig ==
    [backoff_multiplier |-> DefaultBackoffMultiplier,
     initial_delay |-> DefaultInitialDelay, max_delay |-> DefaultMaxDelay]
\* condition=None
NoneCond == [set |-> FALSE, ids |-> {}, is_none |-> TRUE]
\* condition=""
EmptyCond == [set |-> FALSE, ids |-> {}, is_none |-> FALSE]
\* a condition that names the task ids
Cond(ids) == [set |-> TRUE, ids |-> ids, is_none |-> FALSE]
NoCond == [t \in TaskIds |-> NoneCond]

Shapes ==
    { [tasks |-> << >>, depends_on |-> NoDeps, condition |-> NoCond],
      [tasks |-> <<"A">>, depends_on |-> NoDeps, condition |-> NoCond],
      [tasks |-> <<"A", "B">>, depends_on |-> NoDeps, condition |-> NoCond],
      [tasks |-> <<"A", "B">>,
       depends_on |-> [NoDeps EXCEPT !["B"] = <<"A">>], condition |-> NoCond],
      [tasks |-> <<"B", "A">>,
       depends_on |-> [NoDeps EXCEPT !["B"] = <<"A">>], condition |-> NoCond],
      [tasks |-> <<"A", "B">>,
       depends_on |-> [NoDeps EXCEPT !["A"] = <<"B">>, !["B"] = <<"A">>],
       condition |-> NoCond],
      [tasks |-> <<"A", "B">>, depends_on |-> NoDeps,
       condition |-> [NoCond EXCEPT !["B"] = Cond({"A"})]],
      [tasks |-> <<"A", "B", "C">>,
       depends_on |-> [NoDeps EXCEPT !["B"] = <<"A">>, !["C"] = <<"B">>],
       condition |-> NoCond],
      [tasks |-> <<"A", "B", "C">>,
       depends_on |-> [NoDeps EXCEPT !["B"] = <<"A">>, !["C"] = <<"A">>],
       condition |-> NoCond] }

Strategies == {"sequential", "parallel", "dag", "conditional"}

\* workflow.id of the workflow under execution, and the ids a caller may name
WorkflowId == "w"
WorkflowIds == {WorkflowId, "unknown"}

Workflows ==
    { [tasks |-> s.tasks, depends_on |-> s.depends_on, condition |-> s.condition,
       execution_strategy |-> x, continue_on_failure |-> c,
       max_parallel_tasks |-> p, default_timeout_seconds |-> d,
       max_retries |-> [t \in TaskIds |-> r],
       retry_config |-> DefaultRetryConfig,
       timeout_seconds |-> [t \in TaskIds |-> FALSE]] :
      s \in Shapes, x \in Strategies, c \in BOOLEAN, p \in 1..MaxParallel,
      d \in BOOLEAN, r \in 0..MaxRetries }

\* the same workflows with timeout_seconds set on every task
TimedWorkflows ==
    { [w EXCEPT !.timeout_seconds = [t \in TaskIds |-> TRUE]] : w \in Workflows }

Range(s) == {s[i] : i \in 1..Len(s)}

(***************************************************************************)
(* Router configuration: create_default_routing (routing.py), which the    *)
(* orchestrator uses when it is given no config.                           *)
(***************************************************************************)
Routing ==
    << [agent_type |-> "general-purpose", capabilities |-> {"general"},
        priority |-> 5, max_concurrent_tasks |-> 3],
       [agent_type |-> "code-analyzer",
        capabilities |-> {"code_analysis", "debugging", "general"},
        priority |-> 7, max_concurrent_tasks |-> 2],
       [agent_type |-> "code-generator",
        capabilities |-> {"code_generation", "general"},
        priority |-> 7, max_concurrent_tasks |-> 2],
       [agent_type |-> "test-specialist",
        capabilities |-> {"testing", "code_analysis", "general"},
        priority |-> 6, max_concurrent_tasks |-> 2],
       [agent_type |-> "doc-writer",
        capabilities |-> {"documentation", "general"},
        priority |-> 6, max_concurrent_tasks |-> 2],
       [agent_type |-> "data-processor",
        capabilities |-> {"data_processing", "file_operations", "general"},
        priority |-> 6, max_concurrent_tasks |-> 2],
       [agent_type |-> "researcher", capabilities |-> {"research", "general"},
        priority |-> 5, max_concurrent_tasks |-> 3] >>

Agents == {Routing[i].agent_type : i \in 1..Len(Routing)}

\* TaskDefinition.required_capabilities default
RequiredCaps == {"general"}

VARIABLES
    wf,          \* the WorkflowDefinition under execution
    state,       \* StateManager.state: the WorkflowState
    agent_load,  \* TaskRouter.agent_load
    drivers,     \* bag of execute_task coroutines: [task, pc, retry_count, agent_type, seq, late]
    xpc,         \* where execute_workflow / executor.execute() stands
    xi,          \* loop index of the sequential / conditional executor
    calls,       \* per task: agent invocations so far
    nFail,       \* per task: agent invocations that failed
    firstOk,     \* per task: failed calls before the first call that succeeded, -1 if none did
    nRetry,      \* per task: retry_task calls so far
    nStart,      \* per task: start_task calls so far
    timedOut,    \* the workflow deadline expired
    cancels,     \* the last cancel_workflow call, if any: <<[id, ret]>>
    api,         \* the last call made on a StateManager by a direct caller
    router,      \* a TaskRouter under direct calls: its config, load, last call
    cache,       \* a ResultCache: its config, entries, counters, last call
    run,         \* the execute_workflow call: auto_strategy, and which call on
                 \* this orchestrator it is
    bpm          \* an object of the bpm example under direct calls: an
                 \* ApprovalEngine or a BPMOrchestrator

vars == <<wf, state, agent_load, drivers, xpc, xi, calls, nFail, firstOk,
          nRetry, nStart, timedOut, cancels, api, router, cache, run, bpm>>

(***************************************************************************)
(* WorkflowState (models.py).  The four task lists are only appended to    *)
(* under "not in" and removed from under "in", so they are modelled as     *)
(* sets.  task_results maps a task id to its TaskResult, NoResult when the *)
(* key is absent.                                                          *)
(***************************************************************************)
\* a counter after one more event.  The counters of a run are exact where
\* run.exact holds; otherwise they stop at MaxCount, which then stands for
\* MaxCount or more (no test of the code reads them).
Counted(n) == IF run.exact \/ n < MaxCount THEN n + 1 ELSE n

NoResult == [status |-> "none", error |-> "", retry_count |-> 0]

HasResult(st, t) == st.task_results[t].status # "none"

get_task_status(st, t) ==
    IF HasResult(st, t) THEN st.task_results[t].status
    ELSE IF t \in st.current_tasks THEN "running"
    ELSE IF t \in st.pending_tasks THEN "pending"
    ELSE IF t \in st.completed_tasks THEN "completed"
    ELSE IF t \in st.failed_tasks THEN "failed"
    ELSE "pending"

is_task_ready(st, t) ==
    \A d \in Range(wf.depends_on[t]) : get_task_status(st, d) = "completed"

(***************************************************************************)
(* StateManager (state.py): each primitive maps a WorkflowState to the     *)
(* WorkflowState after the call.                                           *)
(***************************************************************************)
\* what a progress callback reads in the WorkflowState it is handed
Snapshot(st) == [status |-> st.status, task_results |-> st.task_results]

\* no call of the progress callback yet
NotSeen == [status |-> "none", task_results |-> [t \in TaskIds |-> NoResult]]

\* seen is not a field of WorkflowState: it holds what the progress callback
\* of execute_workflow read at its last call
NewState(w) ==
    [status |-> "pending", error |-> "",
     pending_tasks |-> Range(w.tasks), current_tasks |-> {},
     completed_tasks |-> {}, failed_tasks |-> {},
     task_results |-> [t \in TaskIds |-> NoResult],
     seen |-> NotSeen]

\* progress_callback(state_manager.state)
progress_callback(st) == [st EXCEPT !.seen = Snapshot(st)]

start_workflow(st) == [st EXCEPT !.status = "running"]

complete_workflow(st) == [st EXCEPT !.status = "completed"]

fail_workflow(st, err) == [st EXCEPT !.status = "failed", !.error = err]

start_task(st, t) ==
    [st EXCEPT !.pending_tasks = @ \ {t},
               !.current_tasks = @ \cup {t},
               !.task_results[t] =
                   IF HasResult(st, t) THEN [@ EXCEPT !.status = "running"]
                   ELSE [NoResult EXCEPT !.status = "running"]]

complete_task(st, t) ==
    [st EXCEPT !.current_tasks = @ \ {t},
               !.completed_tasks = @ \cup {t},
               !.task_results[t] =
                   IF HasResult(st, t) THEN [@ EXCEPT !.status = "completed"] ELSE @]

fail_task(st, t, err) ==
    [st EXCEPT !.current_tasks = @ \ {t},
               !.failed_tasks = @ \cup {t},
               !.task_results[t] =
                   IF HasResult(st, t)
                   THEN [@ EXCEPT !.status = "failed", !.error = err] ELSE @]

retry_task(st, t) ==
    [st EXCEPT !.failed_tasks = @ \ {t},
               !.pending_tasks = @ \cup {t},
               !.task_results[t] =
                   IF HasResult(st, t)
                   THEN [@ EXCEPT !.status = "retrying",
                                  !.retry_count = Counted(@)] ELSE @]

skip_task(st, t, reason) ==
    [st EXCEPT !.pending_tasks = @ \ {t},
               !.task_results[t] =
                   IF HasResult(st, t)
                   THEN [@ EXCEPT !.status = "skipped", !.error = reason]
                   ELSE [NoResult EXCEPT !.status = "skipped", !.error = reason]]

is_workflow_complete(st) == st.pending_tasks = {} /\ st.current_tasks = {}

has_failed_tasks(st) == st.failed_tasks # {}

\* True iff the id of some completed task occurs in the condition string.
evaluate_condition(st, t) == wf.condition[t].ids \cap st.completed_tasks # {}

(***************************************************************************)
(* get_ready_tasks walks workflow.tasks from position i on, skipping in    *)
(* place every pending, ready task whose condition is not met.  It yields  *)
(* the resulting state and the list of ready task ids.                     *)
(***************************************************************************)
RECURSIVE ReadyFrom(_, _, _)
ReadyFrom(st, i, ready) ==
    IF i > Len(wf.tasks) THEN [st |-> st, ready |-> ready]
    ELSE LET t == wf.tasks[i] IN
         IF t \in st.pending_tasks /\ is_task_ready(st, t)
         THEN IF wf.condition[t].set /\ ~evaluate_condition(st, t)
              THEN ReadyFrom(skip_task(st, t, ErrCondition), i + 1, ready)
              ELSE ReadyFrom(st, i + 1, Append(ready, t))
         ELSE ReadyFrom(st, i + 1, ready)

get_ready_tasks(st) == ReadyFrom(st, 1, << >>)

RECURSIVE SkipAll(_, _, _)
\* skip_task applied to every id of the list ids, in order
SkipAll(st, ids, reason) ==
    IF ids = << >> THEN st
    ELSE SkipAll(skip_task(st, Head(ids), reason), Tail(ids), reason)

RECURSIVE FailAll(_, _, _)
\* fail_task applied to every id of the list ids, in order
FailAll(st, ids, err) ==
    IF ids = << >> THEN st
    ELSE FailAll(fail_task(st, Head(ids), err), Tail(ids), err)

(***************************************************************************)
(* topological_sort: Kahn's algorithm as state.py runs it.  in_degree of a *)
(* task starts at len(depends_on); popping a task lowers the in_degree of  *)
(* every task that lists it, once.  The result is the order, and ok is     *)
(* FALSE where the code raises ValueError.                                 *)
(***************************************************************************)
RECURSIVE Kahn(_, _, _)
Kahn(queue, in_degree, result) ==
    IF queue = << >> THEN result
    ELSE LET task_id == Head(queue)
             hit(o) == task_id \in Range(wf.depends_on[o])
             deg == [o \in DOMAIN in_degree |->
                        IF hit(o) THEN in_degree[o] - 1 ELSE in_degree[o]]
             freed(o) == hit(o) /\ deg[o] = 0
         IN  Kahn(Tail(queue) \o SelectSeq(wf.tasks, freed), deg,
                  Append(result, task_id))

topological_sort ==
    LET in_degree == [t \in Range(wf.tasks) |-> Len(wf.depends_on[t])]
        noIncoming(t) == in_degree[t] = 0
        result == Kahn(SelectSeq(wf.tasks, noIncoming), in_degree, << >>)
    IN  [ok |-> Len(result) = Len(wf.tasks), order |-> result]

(***************************************************************************)
(* Strategy selector (strategy_selector.py).                               *)
(***************************************************************************)
analyze_workflow(w) ==
    [task_count |-> Len(w.tasks),
     has_dependencies |-> \E t \in Range(w.tasks) : Len(w.depends_on[t]) > 0,
     has_conditions |-> \E t \in Range(w.tasks) : ~w.condition[t].is_none]

recommend_strategy(w) ==
    IF w.tasks = << >> THEN "sequential"
    ELSE LET analysis == analyze_workflow(w) IN
         IF analysis.has_conditions THEN "conditional"
         ELSE IF ~analysis.has_dependencies
         THEN IF analysis.task_count > 1 THEN "parallel" ELSE "sequential"
         ELSE IF analysis.has_dependencies THEN "dag"
         ELSE "sequential"

\* the recommendation whatever the workflow declares
auto_select_strategy_always(w) == recommend_strategy(w)

auto_select_strategy(w) ==
    IF w.execution_strategy # "dag" THEN w.execution_strategy
    ELSE recommend_strategy(w)

(***************************************************************************)
(* TaskRouter (routing.py).  routing is config.agent_routing, load the     *)
(* agent_load map, agent_type the task's agent_type with "" for None (both *)
(* are false in the test "if task.agent_type").                            *)
(***************************************************************************)
agent_matches_capabilities(r, caps) == caps \subseteq r.capabilities

find_suitable_agents(routing, caps) ==
    LET ok(r) == agent_matches_capabilities(r, caps) IN SelectSeq(routing, ok)

\* sort_key with the priority ascending
KeyLessAscendingPriority(a, b, load) ==
    LET la == load[a.agent_type]
        lb == load[b.agent_type]
        ca == Cardinality(a.capabilities)
        cb == Cardinality(b.capabilities)
    IN  \/ la < lb
        \/ la = lb /\ a.priority < b.priority
        \/ la = lb /\ a.priority = b.priority /\ ca > cb

\* sort_key(a) < sort_key(b) on (load, -priority, -len(capabilities))
KeyLess(a, b, load) ==
    LET la == load[a.agent_type]
        lb == load[b.agent_type]
        ca == Cardinality(a.capabilities)
        cb == Cardinality(b.capabilities)
    IN  \/ la < lb
        \/ la = lb /\ a.priority > b.priority
        \/ la = lb /\ a.priority = b.priority /\ ca > cb

\* x put into the sorted list after every entry whose key is not greater
SortedInsert(sorted, x, load) ==
    LET n == Cardinality({i \in 1..Len(sorted) : ~KeyLess(x, sorted[i], load)})
    IN  SubSeq(sorted, 1, n) \o <<x>> \o SubSeq(sorted, n + 1, Len(sorted))

RECURSIVE SortByKey(_, _)
\* list.sort(key=sort_key): ascending and stable
SortByKey(agents, load) ==
    IF agents = << >> THEN << >>
    ELSE SortedInsert(SortByKey(SubSeq(agents, 1, Len(agents) - 1), load),
                      agents[Len(agents)], load)

select_best_agent(suitable, load) ==
    LET free(r) == load[r.agent_type] < r.max_concurrent_tasks
        able == SelectSeq(suitable, free)
        available == IF able = << >> THEN suitable ELSE able
    IN  Head(SortByKey(available, load))

route_task(agent_type, caps, routing, load) ==
    IF agent_type # "" THEN agent_type
    ELSE LET suitable == find_suitable_agents(routing, caps)
         IN  IF suitable = << >> THEN "general-purpose"
             ELSE select_best_agent(suitable, load).agent_type

increment_agent_load(load, a) == [load EXCEPT ![a] = @ + 1]

decrement_agent_load(load, a) ==
    [load EXCEPT ![a] = IF @ - 1 > 0 THEN @ - 1 ELSE 0]

(***************************************************************************)
(* Driver coroutines.  pc of a driver: "new" (created, first step not yet  *)
(* run, or waiting for the parallel executor's semaphore), "agent"         *)
(* (suspended in agent.run), "sleep" (suspended in the backoff sleep),     *)
(* "done" (returned).  seq is the creation order of the drivers still      *)
(* "new": the event loop runs first steps, and hands out the semaphore, in *)
(* that order.  late: the agent call the driver is suspended in has been   *)
(* pending for longer than the task's timeout_seconds.  delay is the       *)
(* driver's delay variable, slept the delays of its backoff sleeps so far. *)
(* context: the dependency context of the prompt last built for the task;  *)
(* started: the same context read when the driver's start_task returned.   *)
(***************************************************************************)
\* _build_task_prompt, "Context from previous tasks": the dependencies whose
\* result is COMPLETED, each with its output (the output of a task is the
\* same at every completion here, so the ids stand for the outputs)
dependency_context(st, t) ==
    {dep \in Range(wf.depends_on[t]) : st.task_results[dep].status = "completed"}

NewDriver(t, k) ==
    [task |-> t, pc |-> "new", retry_count |-> 0, agent_type |-> "", seq |-> k,
     late |-> FALSE, delay |-> wf.retry_config.initial_delay, slept |-> << >>,
     started |-> {}, context |-> {}]

KeepPc(b, pcs) == [d \in {x \in DOMAIN b : x.pc \in pcs} |-> b[d]]

CountPc(b, pcs) == BagCardinality(KeepPc(b, pcs))

Replace(b, d, e) == (b (-) SetToBag({d})) (+) SetToBag({e})

\* the drivers of ids[1..n], in creation order
Launch(ids, n) == SetToBag({NewDriver(ids[k], k) : k \in 1..n})

InFlight == {"agent", "sleep"}

\* execute_workflow: selected_strategy
selected_strategy ==
    IF run.auto_strategy THEN auto_select_strategy(wf) ELSE wf.execution_strategy

\* asyncio.Semaphore(max_parallel) of the parallel executor: free while
\* fewer than max_parallel drivers hold it
SemaphoreFree(held) == held < wf.max_parallel_tasks

\* the launch test off by one
DAGCanLaunchOffByOne(active) == active <= wf.max_parallel_tasks

\* DAGExecutor.execute: len(active_tasks) < self.max_parallel
DAGCanLaunch(active) == active < wf.max_parallel_tasks

(***************************************************************************)
(* execute_task up to its first await: route, increment the load,          *)
(* start_task, enter the retry loop and call the agent.                    *)
(***************************************************************************)
DriverStart(d) ==
    /\ d.pc = "new"
    /\ \A e \in BagToSet(drivers) : e.pc = "new" => d.seq <= e.seq
    /\ selected_strategy = "parallel" => SemaphoreFree(CountPc(drivers, InFlight))
    /\ LET a == route_task("", RequiredCaps, Routing, agent_load) IN
       /\ agent_load' = increment_agent_load(agent_load, a)
       /\ drivers' = Replace(drivers, d,
                             [d EXCEPT !.pc = "agent", !.agent_type = a, !.seq = 0,
                                       !.started = dependency_context(start_task(state, d.task), d.task),
                                       !.context = dependency_context(start_task(state, d.task), d.task)])
    /\ state' = progress_callback(start_task(state, d.task))
    /\ nStart' = [nStart EXCEPT ![d.task] = Counted(@)]
    /\ calls' = [calls EXCEPT ![d.task] = Counted(@)]
    /\ UNCHANGED <<wf, bpm, run, cancels, api, router, cache, xpc, xi, nFail, firstOk, nRetry, timedOut>>

\* agent.run returned: complete_task, decrement the load, return
AgentOk(d) ==
    /\ d.pc = "agent"
    /\ state' = progress_callback(complete_task(state, d.task))
    /\ agent_load' = decrement_agent_load(agent_load, d.agent_type)
    /\ drivers' = Replace(drivers, d, [d EXCEPT !.pc = "done", !.late = FALSE])
    /\ firstOk' = [firstOk EXCEPT ![d.task] = IF @ < 0 THEN nFail[d.task] ELSE @]
    /\ UNCHANGED <<wf, bpm, run, cancels, api, router, cache, xpc, xi, calls, nFail, nRetry, nStart, timedOut>>

\* the retry test with <= for <
ShouldRetryOffByOne(retry_count, max_retries) == retry_count <= max_retries

\* execute_task: if retry_count < max_retries
ShouldRetry(retry_count, max_retries) == retry_count < max_retries

\* agent calls that have failed so far, over all tasks
FailedCalls == nFail["A"] + nFail["B"] + nFail["C"]

\* agent.run raised: retry_task and sleep while retry_count < max_retries,
\* else fail_task, decrement the load, return
AgentFail(d) ==
    /\ d.pc = "agent"
    /\ run.exact => FailedCalls < MaxFail
    /\ nFail' = [nFail EXCEPT ![d.task] = Counted(@)]
    /\ IF ShouldRetry(d.retry_count, wf.max_retries[d.task])
       THEN /\ state' = progress_callback(retry_task(state, d.task))
            /\ nRetry' = [nRetry EXCEPT ![d.task] = Counted(@)]
            /\ drivers' = Replace(drivers, d,
                                  [d EXCEPT !.pc = "sleep", !.retry_count = @ + 1,
                                            !.late = FALSE,
                                            !.slept = Append(@, d.delay)])
            /\ UNCHANGED agent_load
       ELSE /\ state' = progress_callback(fail_task(state, d.task, ErrAgent))
            /\ agent_load' = decrement_agent_load(agent_load, d.agent_type)
            /\ drivers' = Replace(drivers, d,
                                  [d EXCEPT !.pc = "done", !.late = FALSE])
            /\ UNCHANGED nRetry
    /\ UNCHANGED <<wf, bpm, run, cancels, api, router, cache, xpc, xi, calls, firstOk, nStart, timedOut>>

\* min(delay * backoff_multiplier, max_delay)
next_delay(delay, rc) ==
    IF delay * rc.backoff_multiplier < rc.max_delay
    THEN delay * rc.backoff_multiplier ELSE rc.max_delay

\* the backoff sleep is over: the delay of the next sleep is set, then the
\* next turn of the retry loop calls the agent
SleepDone(d) ==
    /\ d.pc = "sleep"
    /\ d.retry_count <= wf.max_retries[d.task]
    /\ drivers' = Replace(drivers, d,
                          [d EXCEPT !.pc = "agent",
                                    !.delay = next_delay(@, wf.retry_config),
                                    !.context = dependency_context(state, d.task)])
    /\ calls' = [calls EXCEPT ![d.task] = Counted(@)]
    /\ UNCHANGED <<wf, bpm, run, cancels, api, router, cache, state, agent_load, xpc, xi, nFail, firstOk, nRetry,
                   nStart, timedOut>>

(***************************************************************************)
(* execute_workflow (coordinator.py).                                      *)
(***************************************************************************)
\* after executor.execute() returned
Finalize(st) ==
    IF has_failed_tasks(st) /\ ~wf.continue_on_failure
    THEN fail_workflow(st, ErrTasksFailed)
    ELSE complete_workflow(st)

\* the fail-fast test with continue_on_failure taken the wrong way round
FailFastInverted(st) == wf.continue_on_failure /\ has_failed_tasks(st)

FailFast(st) == ~wf.continue_on_failure /\ has_failed_tasks(st)

StartWorkflow ==
    /\ xpc = "begin"
    /\ state' = start_workflow(state)
    /\ xpc' = selected_strategy
    /\ UNCHANGED <<wf, bpm, run, cancels, api, router, cache, agent_load, drivers, xi, calls, nFail, firstOk, nRetry,
                   nStart, timedOut>>

\* executor.execute() returned with state st: the final status is set
Return(st) ==
    /\ state' = progress_callback(Finalize(st))
    /\ xpc' = "returned"
    /\ drivers' = KeepPc(drivers, {"new", "agent", "sleep"})

Idle == CountPc(drivers, {"new", "agent", "sleep"}) = 0

(***************************************************************************)
(* SequentialExecutor.execute: one turn of the for loop, taken when the    *)
(* driver awaited by the previous turn has returned.                       *)
(***************************************************************************)
SeqStep ==
    /\ xpc = "sequential"
    /\ Idle
    /\ IF xi > Len(wf.tasks)
       THEN Return(state) /\ UNCHANGED xi
       ELSE /\ xi' = xi + 1
            /\ xpc' = xpc
            /\ IF FailFast(state)
               THEN /\ state' = skip_task(state, wf.tasks[xi], ErrPrevFailed)
                    /\ drivers' = EmptyBag
               ELSE /\ drivers' = Launch(<<wf.tasks[xi]>>, 1)
                    /\ UNCHANGED state
    /\ UNCHANGED <<wf, bpm, run, cancels, api, router, cache, agent_load, calls, nFail, firstOk, nRetry, nStart, timedOut>>

(***************************************************************************)
(* ConditionalExecutor.execute: one turn of the for loop.                  *)
(***************************************************************************)
CondStep ==
    /\ xpc = "conditional"
    /\ Idle
    /\ IF xi > Len(wf.tasks)
       THEN Return(state) /\ UNCHANGED xi
       ELSE LET t == wf.tasks[xi] IN
            /\ xi' = xi + 1
            /\ xpc' = xpc
            /\ IF ~is_task_ready(state, t)
               THEN /\ state' = skip_task(state, t, ErrDeps)
                    /\ drivers' = EmptyBag
               ELSE IF wf.condition[t].set /\ ~evaluate_condition(state, t)
               THEN /\ state' = skip_task(state, t, ErrCondition)
                    /\ drivers' = EmptyBag
               ELSE IF FailFast(state)
               THEN /\ state' = skip_task(state, t, ErrPrevFailed)
                    /\ drivers' = EmptyBag
               ELSE /\ drivers' = Launch(<<t>>, 1)
                    /\ UNCHANGED state
    /\ UNCHANGED <<wf, bpm, run, cancels, api, router, cache, agent_load, calls, nFail, firstOk, nRetry, nStart, timedOut>>

(***************************************************************************)
(* ParallelExecutor.execute: gather over one coroutine per task, each      *)
(* taking the semaphore before it calls the driver.                        *)
(***************************************************************************)
ParStart ==
    /\ xpc = "parallel"
    /\ drivers' = Launch(wf.tasks, Len(wf.tasks))
    /\ xpc' = "gather"
    /\ UNCHANGED <<wf, bpm, run, cancels, api, router, cache, state, agent_load, xi, calls, nFail, firstOk, nRetry,
                   nStart, timedOut>>

ParDone ==
    /\ xpc = "gather"
    /\ Idle
    /\ Return(state)
    /\ UNCHANGED <<wf, bpm, run, cancels, api, router, cache, agent_load, xi, calls, nFail, firstOk, nRetry, nStart, timedOut>>

(***************************************************************************)
(* DAGExecutor.execute.  DagLoop is the while loop from its test to the    *)
(* next await, entered with state st and the set active of running         *)
(* drivers: it yields the state, the active set and where the executor     *)
(* stands then ("dagwait": asyncio.wait FIRST_COMPLETED, "dagwaitall":     *)
(* asyncio.wait of the fail-fast branch, "return": the loop was left).     *)
(***************************************************************************)
DagLoop(st, active) ==
    IF is_workflow_complete(st)
    THEN [st |-> st, active |-> active, at |-> "return"]
    ELSE LET r == get_ready_tasks(st)
             n == Cardinality({k \in 1..Len(r.ready) :
                                  DAGCanLaunch(BagCardinality(active) + k - 1)})
             launched == active (+) Launch(r.ready, n)
         IN  IF FailFast(r.st)
             THEN [st |-> SkipAll(r.st, r.ready, ErrPrevFailed), active |-> active,
                   at |-> IF active # EmptyBag THEN "dagwaitall" ELSE "return"]
             ELSE [st |-> r.st, active |-> launched,
                   at |-> IF launched # EmptyBag THEN "dagwait" ELSE "return"]

DagGo(l) ==
    IF l.at = "return"
    THEN /\ state' = progress_callback(Finalize(l.st))
         /\ xpc' = "returned"
         /\ drivers' = l.active
    ELSE /\ state' = l.st
         /\ xpc' = l.at
         /\ drivers' = l.active

\* topological_sort, then the first turn of the loop
DagStart ==
    /\ xpc = "dag"
    /\ IF topological_sort.ok
       THEN DagGo(DagLoop(state, EmptyBag))
       ELSE DagGo([st |-> FailAll(state, wf.tasks, ErrCycle), active |-> EmptyBag,
                   at |-> "return"])
    /\ UNCHANGED <<wf, bpm, run, cancels, api, router, cache, agent_load, xi, calls, nFail, firstOk, nRetry, nStart, timedOut>>

\* asyncio.wait(FIRST_COMPLETED) returned: the drivers that are done leave
\* active_tasks, then the next turn of the loop
DagWake ==
    /\ xpc = "dagwait"
    /\ CountPc(drivers, {"done"}) > 0
    /\ CountPc(drivers, {"new"}) = 0
    /\ DagGo(DagLoop(state, KeepPc(drivers, InFlight)))
    /\ UNCHANGED <<wf, bpm, run, cancels, api, router, cache, agent_load, xi, calls, nFail, firstOk, nRetry, nStart, timedOut>>

\* fail-fast branch: asyncio.wait(active_tasks) returned, break
DagWaitAll ==
    /\ xpc = "dagwaitall"
    /\ Idle
    /\ Return(state)
    /\ UNCHANGED <<wf, bpm, run, cancels, api, router, cache, agent_load, xi, calls, nFail, firstOk, nRetry, nStart, timedOut>>

(***************************************************************************)
(* asyncio.wait_for(executor.execute(), default_timeout_seconds) expires   *)
(* while the executor is suspended.  The executor coroutine is cancelled   *)
(* and execute_workflow records the failure.  A driver awaited directly    *)
(* (sequential, conditional) or through gather (parallel) is cancelled     *)
(* with it: CancelledError is not an Exception, so the driver leaves       *)
(* without touching the state or the load.  The drivers of the DAG         *)
(* executor are tasks of their own, which asyncio.wait does not cancel.    *)
(***************************************************************************)
Timeout ==
    /\ wf.default_timeout_seconds
    /\ xpc \notin {"begin", "returned"}
    /\ CountPc(drivers, InFlight) > 0
    /\ timedOut' = TRUE
    /\ state' = progress_callback(fail_workflow(state, ErrTimedOut))
    /\ xpc' = "returned"
    /\ drivers' = IF selected_strategy = "dag"
                  THEN KeepPc(drivers, {"new", "agent", "sleep"}) ELSE EmptyBag
    /\ UNCHANGED <<wf, bpm, run, cancels, api, router, cache, agent_load, xi, calls, nFail, firstOk, nRetry, nStart>>

\* the variables of the StateManager, router and cache that are exercised
\* by direct calls stay as constructed during a workflow run
NoApi == [op |-> "none", ready |-> << >>, ok |-> TRUE, ret |-> ""]

NoRouter == [routing |-> << >>, agent_type |-> "", caps |-> {}, load |-> << >>,
             ret |-> ""]

NoCache == [on |-> FALSE]

\* no object of the bpm example is in use
NoBpm == [kind |-> "none"]

\* the first execute_workflow call on an orchestrator
\* raised lists the exceptions that left a driver: the task, the status it
\* had then and the start_task calls made for it until then; exact: the
\* agent stub fails at most MaxFail calls and the counters are exact
FirstRun(auto) ==
    [auto_strategy |-> auto, n |-> 1, first_completed |-> FALSE, raised |-> << >>,
     exact |-> TRUE]

\* a TaskOrchestrator constructed with the default config, about to run one
\* of the workflows ws in one of the ways runs
InitRun(ws, runs) ==
    /\ wf \in ws
    /\ run \in runs
    /\ state = NewState(wf)
    /\ agent_load = [a \in Agents |-> 0]
    /\ drivers = EmptyBag
    /\ xpc = "begin"
    /\ xi = 1
    /\ calls = [t \in TaskIds |-> 0]
    /\ nFail = [t \in TaskIds |-> 0]
    /\ firstOk = [t \in TaskIds |-> -1]
    /\ nRetry = [t \in TaskIds |-> 0]
    /\ nStart = [t \in TaskIds |-> 0]
    /\ timedOut = FALSE
    /\ cancels = << >>

\* the same with auto_strategy drawn from autos
InitExecute(ws, autos) == InitRun(ws, {FirstRun(auto) : auto \in autos})

\* the same with auto_strategy left at its default
InitOrchestrator(ws) == InitExecute(ws, {FALSE})

Init ==
    /\ InitOrchestrator(Workflows)
    /\ api = NoApi
    /\ bpm = NoBpm
    /\ router = NoRouter
    /\ cache = NoCache

Next ==
    \/ StartWorkflow
    \/ SeqStep
    \/ CondStep
    \/ ParStart
    \/ ParDone
    \/ DagStart
    \/ DagWake
    \/ DagWaitAll
    \/ Timeout
    \/ \E d \in BagToSet(drivers) : DriverStart(d)
    \/ \E d \in BagToSet(drivers) : AgentOk(d)
    \/ \E d \in BagToSet(drivers) : AgentFail(d)
    \/ \E d \in BagToSet(drivers) : SleepDone(d)

Spec == Init /\ [][Next]_vars

(***************************************************************************)
(* The DAG executor with a progress callback that raises.  The callback is *)
(* called outside the driver's try block after start_task, and inside its  *)
(* except block after retry_task: in both places the exception leaves the  *)
(* driver and reaches _execute_task_wrapper, in the same step of the event *)
(* loop.  (Raised after complete_task it is caught by the driver's own     *)
(* except block; after fail_task the task has its terminal status.)  At    *)
(* most MaxRaise calls of the callback raise in a run.                     *)
(***************************************************************************)
\* _execute_task_wrapper: the except branch, entered with state st
execute_task_wrapper(st, t, err) ==
    IF get_task_status(st, t) = "running" THEN fail_task(st, t, err) ELSE st

Raised(t, st, starts) ==
    Append(run.raised, [task |-> t, status |-> get_task_status(st, t),
                        starts |-> starts])

\* execute_task up to the callback after start_task, which raises
StartRaise(d) ==
    /\ d.pc = "new"
    /\ \A e \in BagToSet(drivers) : e.pc = "new" => d.seq <= e.seq
    /\ Len(run.raised) < MaxRaise
    /\ LET a == route_task("", RequiredCaps, Routing, agent_load)
           st == progress_callback(start_task(state, d.task))
       IN  /\ agent_load' = increment_agent_load(agent_load, a)
           /\ drivers' = Replace(drivers, d,
                                 [d EXCEPT !.pc = "done", !.agent_type = a, !.seq = 0])
           /\ nStart' = [nStart EXCEPT ![d.task] = @ + 1]
           /\ state' = execute_task_wrapper(st, d.task, ErrCallback)
           /\ run' = [run EXCEPT !.raised = Raised(d.task, st, nStart[d.task] + 1)]
    /\ UNCHANGED <<wf, bpm, cancels, api, router, cache, xpc, xi, calls, nFail, firstOk,
                   nRetry, timedOut>>

\* agent.run raised, retry_task, and the callback after it raises
RetryRaise(d) ==
    /\ d.pc = "agent"
    /\ FailedCalls < MaxFail
    /\ ShouldRetry(d.retry_count, wf.max_retries[d.task])
    /\ Len(run.raised) < MaxRaise
    /\ LET st == progress_callback(retry_task(state, d.task)) IN
       /\ nFail' = [nFail EXCEPT ![d.task] = @ + 1]
       /\ nRetry' = [nRetry EXCEPT ![d.task] = @ + 1]
       /\ drivers' = Replace(drivers, d,
                             [d EXCEPT !.pc = "done", !.retry_count = @ + 1,
                                       !.late = FALSE])
       /\ state' = execute_task_wrapper(st, d.task, ErrCallback)
       /\ run' = [run EXCEPT !.raised = Raised(d.task, st, nStart[d.task])]
    /\ UNCHANGED <<wf, bpm, cancels, api, router, cache, agent_load, xpc, xi, calls,
                   firstOk, nStart, timedOut>>

DagWorkflows == {w \in Workflows : w.execution_strategy = "dag"}

InitRaise ==
    /\ InitOrchestrator(DagWorkflows)
    /\ api = NoApi
    /\ bpm = NoBpm
    /\ router = NoRouter
    /\ cache = NoCache

NextRaise ==
    \/ StartWorkflow
    \/ DagStart
    \/ DagWake
    \/ DagWaitAll
    \/ Timeout
    \/ \E d \in BagToSet(drivers) : DriverStart(d)
    \/ \E d \in BagToSet(drivers) : AgentOk(d)
    \/ \E d \in BagToSet(drivers) : AgentFail(d)
    \/ \E d \in BagToSet(drivers) : SleepDone(d)
    \/ \E d \in BagToSet(drivers) : StartRaise(d)
    \/ \E d \in BagToSet(drivers) : RetryRaise(d)

SpecRaise == InitRaise /\ [][NextRaise]_vars

(***************************************************************************)
(* The DAG executor on acyclic workflows without a workflow deadline, with *)
(* an agent stub that may fail any number of calls.  Every step that is    *)
(* enabled is taken in the end: the event loop runs every coroutine that   *)
(* is ready (the drivers that asyncio.create_task made run their first     *)
(* step before the executor is resumed, so again and again no driver is    *)
(* left at its start), every agent call of a task returns or raises,       *)
(* every backoff sleep ends.                                               *)
(***************************************************************************)
LiveWorkflows ==
    {w \in DagWorkflows :
        /\ ~w.default_timeout_seconds
        /\ \A t \in Range(w.tasks) : t \notin Range(w.depends_on[t])
        /\ \A t \in Range(w.tasks) : \A u \in Range(w.depends_on[t]) :
              t \notin Range(w.depends_on[u])}

InitLive ==
    /\ InitRun(LiveWorkflows, {[FirstRun(FALSE) EXCEPT !.exact = FALSE]})
    /\ api = NoApi
    /\ bpm = NoBpm
    /\ router = NoRouter
    /\ cache = NoCache

NextLive ==
    \/ StartWorkflow
    \/ DagStart
    \/ DagWake
    \/ DagWaitAll
    \/ \E d \in BagToSet(drivers) : DriverStart(d)
    \/ \E d \in BagToSet(drivers) : AgentOk(d)
    \/ \E d \in BagToSet(drivers) : AgentFail(d)
    \/ \E d \in BagToSet(drivers) : SleepDone(d)

\* the agent call of a driver of task t returns or raises
AgentReturns(t) ==
    \E d \in BagToSet(drivers) : d.task = t /\ (AgentOk(d) \/ AgentFail(d))

\* the backoff sleep of a driver of task t ends
SleepEnds(t) == \E d \in BagToSet(drivers) : d.task = t /\ SleepDone(d)

EventLoopRuns ==
    /\ WF_vars(StartWorkflow)
    /\ WF_vars(DagStart)
    /\ WF_vars(DagWake)
    /\ WF_vars(DagWaitAll)
    /\ []<>(CountPc(drivers, {"new"}) = 0)
    /\ \A t \in TaskIds : WF_vars(AgentReturns(t))
    /\ \A t \in TaskIds : WF_vars(SleepEnds(t))

SpecLive == InitLive /\ [][NextLive]_vars /\ EventLoopRuns

(***************************************************************************)
(* The retry loop of one task under the sequential executor, for the       *)
(* RetryConfig values the model accepts (backoff_multiplier >= 1.0,        *)
(* initial_delay >= 0.1, max_delay >= 1.0, max_retries >= 0; no constraint *)
(* ties initial_delay to max_delay), with an agent stub that may fail      *)
(* every call.                                                             *)
(***************************************************************************)
RetryConfigs ==
    [backoff_multiplier : 1..3, initial_delay : {1, 10, 25}, max_delay : {10, 20, 600}]

BackoffWorkflows ==
    {[w EXCEPT !.retry_config = rc, !.max_retries = [t \in TaskIds |-> r]] :
        w \in {x \in Workflows : /\ x.tasks = <<"A">>
                                 /\ x.execution_strategy = "sequential"
                                 /\ ~x.default_timeout_seconds
                                 /\ x.max_parallel_tasks = 1
                                 /\ x.max_retries["A"] = 0},
        rc \in RetryConfigs, r \in 0..MaxBackoffRetries}

InitBackoff ==
    /\ InitRun(BackoffWorkflows, {[FirstRun(FALSE) EXCEPT !.exact = FALSE]})
    /\ api = NoApi
    /\ bpm = NoBpm
    /\ router = NoRouter
    /\ cache = NoCache

NextBackoff ==
    \/ StartWorkflow
    \/ SeqStep
    \/ \E d \in BagToSet(drivers) : DriverStart(d)
    \/ \E d \in BagToSet(drivers) : AgentOk(d)
    \/ \E d \in BagToSet(drivers) : AgentFail(d)
    \/ \E d \in BagToSet(drivers) : SleepDone(d)

SpecBackoff == InitBackoff /\ [][NextBackoff]_vars

(***************************************************************************)
(* execute_workflow called with auto_strategy true or false.               *)
(***************************************************************************)
InitAuto ==
    /\ InitExecute(Workflows, BOOLEAN)
    /\ api = NoApi
    /\ bpm = NoBpm
    /\ router = NoRouter
    /\ cache = NoCache

SpecAuto == InitAuto /\ [][Next]_vars

(***************************************************************************)
(* execute_workflow called a second time on the same orchestrator with the *)
(* same workflow, after the first call returned and its drivers ended.     *)
(* The call makes a new StateManager; the router and its load stay.  The   *)
(* orchestrator holds no ResultCache and its driver makes no cache call    *)
(* (the constructor takes agent, deps and config only), so a ResultCache   *)
(* that the caller made beside it stays as constructed.                    *)
(***************************************************************************)
ExecuteAgain ==
    /\ xpc = "returned"
    /\ drivers = EmptyBag
    /\ run.n = 1
    /\ run' = [run EXCEPT !.n = 2,
                          !.first_completed =
                              /\ state.status = "completed"
                              /\ \A t \in Range(wf.tasks) :
                                    state.task_results[t].status = "completed"]
    /\ state' = NewState(wf)
    /\ xpc' = "begin"
    /\ xi' = 1
    /\ calls' = [t \in TaskIds |-> 0]
    /\ nFail' = [t \in TaskIds |-> 0]
    /\ firstOk' = [t \in TaskIds |-> -1]
    /\ nRetry' = [t \in TaskIds |-> 0]
    /\ nStart' = [t \in TaskIds |-> 0]
    /\ timedOut' = FALSE
    /\ UNCHANGED <<wf, bpm, cancels, api, router, cache, agent_load, drivers>>

\* the workflows run twice: those of up to two tasks
RerunWorkflows == {w \in Workflows : Len(w.tasks) < Cardinality(TaskIds)}

NextRerun ==
    \/ Next
    \/ ExecuteAgain

(***************************************************************************)
(* The time timeout_seconds of a task has passed since the driver entered  *)
(* _execute_single_task.  The agent call is awaited with no time bound     *)
(* (timeout_seconds is read nowhere in the coordinator), so the driver     *)
(* stays suspended in the same call.                                       *)
(***************************************************************************)
TaskDeadline(d) ==
    /\ d.pc = "agent"
    /\ wf.timeout_seconds[d.task]
    /\ ~d.late
    /\ drivers' = Replace(drivers, d, [d EXCEPT !.late = TRUE])
    /\ UNCHANGED <<wf, bpm, run, cancels, api, router, cache, state, agent_load, xpc, xi,
                   calls, nFail, firstOk, nRetry, nStart, timedOut>>

InitTaskTimeout ==
    /\ InitOrchestrator(TimedWorkflows)
    /\ api = NoApi
    /\ bpm = NoBpm
    /\ router = NoRouter
    /\ cache = NoCache

NextTaskTimeout ==
    \/ Next
    \/ \E d \in BagToSet(drivers) : TaskDeadline(d)

SpecTaskTimeout == InitTaskTimeout /\ [][NextTaskTimeout]_vars

(***************************************************************************)
(* cancel_workflow (coordinator.py), called by another coroutine or by the *)
(* caller of execute_workflow: before execute_workflow is entered, after   *)
(* it returned, or while it is suspended with a driver waiting in an agent *)
(* call or a backoff sleep.  self.workflows holds the workflow from the    *)
(* first step of execute_workflow on.                                      *)
(***************************************************************************)
Registered(id) == id = WorkflowId /\ xpc # "begin"

\* cancels whatever the status of the workflow is
cancel_workflow_any(st, found) ==
    IF found
    THEN [st |-> fail_workflow(st, ErrCancelled), ret |-> TRUE]
    ELSE [st |-> st, ret |-> FALSE]

cancel_workflow(st, found) ==
    IF found /\ st.status = "running"
    THEN [st |-> fail_workflow(st, ErrCancelled), ret |-> TRUE]
    ELSE [st |-> st, ret |-> FALSE]

CancelWorkflow(id) ==
    /\ xpc \in {"begin", "returned"} \/ CountPc(drivers, InFlight) > 0
    /\ LET r == cancel_workflow(state, Registered(id)) IN
       /\ state' = r.st
       /\ cancels' = <<[id |-> id, ret |-> r.ret]>>
    /\ UNCHANGED <<wf, bpm, run, api, router, cache, agent_load, drivers, xpc, xi, calls,
                   nFail, firstOk, nRetry, nStart, timedOut>>

\* the workflows run with a canceller beside them: those of up to two tasks
CancelledWorkflows == {w \in Workflows : Len(w.tasks) < Cardinality(TaskIds)}

InitCancel ==
    /\ InitOrchestrator(CancelledWorkflows)
    /\ api = NoApi
    /\ bpm = NoBpm
    /\ router = NoRouter
    /\ cache = NoCache

NextCancel ==
    \/ Next
    \/ \E id \in WorkflowIds : CancelWorkflow(id)

SpecCancel == InitCancel /\ [][NextCancel]_vars

(***************************************************************************)
(* A StateManager under direct calls, as the unit tests drive it: the      *)
(* caller asks for the ready tasks, starts a pending task, and completes   *)
(* or fails a task it has started.  api holds the last call and the list   *)
(* that get_ready_tasks returned.                                          *)
(***************************************************************************)
StateManagerWorkflows ==
    {w \in Workflows :
        /\ w.execution_strategy = "dag"
        /\ ~w.continue_on_failure
        /\ ~w.default_timeout_seconds
        /\ w.max_parallel_tasks = MaxParallel
        /\ w.max_retries = [t \in TaskIds |-> MaxRetries]}

CallGetReadyTasks ==
    /\ LET r == get_ready_tasks(state) IN
       /\ state' = r.st
       /\ api' = [NoApi EXCEPT !.op = "get_ready_tasks", !.ready = r.ready]
    /\ UNCHANGED <<wf, bpm, run, cancels, router, cache, agent_load, drivers, xpc, xi,
                   calls, nFail, firstOk, nRetry, nStart, timedOut>>

CallStartTask(t) ==
    /\ t \in state.pending_tasks
    /\ state' = start_task(state, t)
    /\ nStart' = [nStart EXCEPT ![t] = 1]
    /\ api' = [NoApi EXCEPT !.op = "start_task"]
    /\ UNCHANGED <<wf, bpm, run, cancels, router, cache, agent_load, drivers, xpc, xi,
                   calls, nFail, firstOk, nRetry, timedOut>>

CallCompleteTask(t) ==
    /\ t \in state.current_tasks
    /\ state' = complete_task(state, t)
    /\ api' = [NoApi EXCEPT !.op = "complete_task"]
    /\ UNCHANGED <<wf, bpm, run, cancels, router, cache, agent_load, drivers, xpc, xi,
                   calls, nFail, firstOk, nRetry, nStart, timedOut>>

CallFailTask(t) ==
    /\ t \in state.current_tasks
    /\ state' = fail_task(state, t, ErrAgent)
    /\ api' = [NoApi EXCEPT !.op = "fail_task"]
    /\ UNCHANGED <<wf, bpm, run, cancels, router, cache, agent_load, drivers, xpc, xi,
                   calls, nFail, firstOk, nRetry, nStart, timedOut>>

InitStateManager ==
    /\ InitOrchestrator(StateManagerWorkflows)
    /\ api = NoApi
    /\ bpm = NoBpm
    /\ router = NoRouter
    /\ cache = NoCache

NextStateManager ==
    \/ CallGetReadyTasks
    \/ \E t \in TaskIds : CallStartTask(t)
    \/ \E t \in TaskIds : CallCompleteTask(t)
    \/ \E t \in TaskIds : CallFailTask(t)

SpecStateManager == InitStateManager /\ [][NextStateManager]_vars

(***************************************************************************)
(* A TaskRouter under direct calls, as the unit tests drive it: a config   *)
(* of up to two executors, route_task for a task with or without an        *)
(* agent_type, and the two load primitives.  router.ret is the id the last *)
(* route_task call returned, "" when the load changed since.               *)
(***************************************************************************)
RouterAgents == {"x", "y"}

RouterCapSets == {{"general"}, {"testing"}, {"general", "testing"}}

RouterEntries ==
    [agent_type : RouterAgents, capabilities : RouterCapSets,
     priority : {5, 7}, max_concurrent_tasks : {1, 2}]

RouterConfigs ==
    {<< >>} \cup {<<e>> : e \in RouterEntries}
            \cup {p \in RouterEntries \X RouterEntries :
                      p[1].agent_type # p[2].agent_type}

\* task.agent_type: None or an explicit executor id
RouterAgentTypes == {"", "special"}

InitRouter ==
    /\ InitOrchestrator({w \in StateManagerWorkflows : w.tasks = << >>})
    /\ api = NoApi
    /\ bpm = NoBpm
    /\ cache = NoCache
    /\ \E c \in RouterConfigs :
          router = [routing |-> c, agent_type |-> "", caps |-> {},
                    load |-> [a \in RouterAgents |-> 0], ret |-> ""]

CallRouteTask(agent_type, caps) ==
    /\ router' = [router EXCEPT
                     !.agent_type = agent_type, !.caps = caps,
                     !.ret = route_task(agent_type, caps, router.routing, router.load)]
    /\ UNCHANGED <<wf, bpm, run, cancels, api, cache, state, agent_load, drivers, xpc, xi,
                   calls, nFail, firstOk, nRetry, nStart, timedOut>>

CallIncrementLoad(a) ==
    /\ router.load[a] < MaxLoad
    /\ router' = [router EXCEPT !.load = increment_agent_load(router.load, a),
                                !.agent_type = "", !.caps = {}, !.ret = ""]
    /\ UNCHANGED <<wf, bpm, run, cancels, api, cache, state, agent_load, drivers, xpc, xi,
                   calls, nFail, firstOk, nRetry, nStart, timedOut>>

CallDecrementLoad(a) ==
    /\ router' = [router EXCEPT !.load = decrement_agent_load(router.load, a),
                                !.agent_type = "", !.caps = {}, !.ret = ""]
    /\ UNCHANGED <<wf, bpm, run, cancels, api, cache, state, agent_load, drivers, xpc, xi,
                   calls, nFail, firstOk, nRetry, nStart, timedOut>>

NextRouter ==
    \/ \E t \in RouterAgentTypes, caps \in RouterCapSets : CallRouteTask(t, caps)
    \/ \E a \in RouterAgents : CallIncrementLoad(a)
    \/ \E a \in RouterAgents : CallDecrementLoad(a)

SpecRouter == InitRouter /\ [][NextRouter]_vars

(***************************************************************************)
(* ResultCache (cache.py) under direct calls, as the unit tests drive it.  *)
(*                                                                         *)
(* A SHA-256 digest is not computed: Sha256Hex(x) stands for the 64 hex    *)
(* digits of the digest of x and Sha256Prefix(x) for its first 16, taking  *)
(* the hash to be free of collisions.  What the code does with a digest is *)
(* compare it with another one and search it for a task id.                *)
(*                                                                         *)
(* Time: cache.now is the clock in the unit of ttl_seconds, read for       *)
(* created_at, the file mtime and the ages.  Two calls never read the same *)
(* datetime.now(), so accessed_at, which is only ever compared with other  *)
(* accessed_at values, is the number of the call that set it.              *)
(***************************************************************************)
\* CacheConfig.max_size default
DefaultMaxSize == 1000
\* length of hashlib.sha256(..).hexdigest(), and of its slice [:16]
HexDigits == 64
PrefixDigits == 16

CacheStrategies == {"none", "memory", "disk", "hybrid"}

\* CacheConfig.ttl_seconds where it is set, in units of the clock
TtlSeconds == 2

CacheIds == {"dep", "task", "e"}

\* the ids spelled with the digits 0-9a-f only: only these can occur in a
\* hex digest
HexIds == {"e"}

\* TaskDefinition(id, description, depends_on) of the cached tasks
CacheTask(id) ==
    [id |-> id, description |-> "work",
     depends_on |-> IF id = "task" THEN <<"dep">> ELSE << >>]

\* TaskResult.output of the results put
Outputs == {"o1", "o2"}

\* TaskResult.output of a dependency result: the int 1, the str "1", the
\* str "2"; Str is str() of it
DepOutputs == {"int 1", "str 1", "str 2"}

Str(o) ==
    CASE o = "int 1" -> "1"
      [] o = "str 1" -> "1"
      [] o = "str 2" -> "2"
      [] OTHER -> o

\* dependency_results: per id the output of its result, "-" for no entry;
\* None and the empty dict are both the map with no entry
NoDepResults == [i \in CacheIds |-> "-"]

\* no entry, a result of "dep", or a result of "e" alone
DepResults ==
    {NoDepResults, [NoDepResults EXCEPT !["e"] = "str 2"]}
        \cup {[NoDepResults EXCEPT !["dep"] = o] : o \in DepOutputs}

Sha256Hex(x) == [digits |-> HexDigits, of |-> x]

Sha256Prefix(x) == [digits |-> PrefixDigits, of |-> x]

\* task_id.encode(): the bytes of the bare id
RawId(id) ==
    [json |-> FALSE, task_id |-> id, description |-> "",
     has_dependencies |-> FALSE, dependencies |-> {}]

\* CacheKey.generate: parameters, capabilities and skills are the same for
\* all tasks of the model and left out of the key components
generate(task, deps, include) ==
    LET given == include /\ deps # NoDepResults
        present == {d \in Range(task.depends_on) : deps[d] # "-"}
    IN  Sha256Hex([json |-> TRUE, task_id |-> task.id,
                   description |-> task.description,
                   has_dependencies |-> given,
                   dependencies |-> IF given THEN {<<d, Str(deps[d])>> : d \in present}
                                    ELSE {}])

NoHit == [task_id |-> "", output |-> ""]

Restrict(f, keys) == [k \in keys |-> f[k]]

\* "task_id in k" for a key k: a substring test on the hex digest, false for
\* an id with a character that is no hex digit; for an id of hex digits it
\* depends on the digest, c.substring says which way.  The glob
\* "*{task_id}*.cache" on the file names is the same test.
KeyContains(c, k, id) == id \in HexIds /\ c.substring

\* datetime.now() of the call being served, as accessed_at holds it
Stamp(c) == c.ops + 1

\* _is_valid
is_valid(c, entry) ==
    ~c.has_ttl \/ c.now - entry.created_at < c.ttl_seconds

\* CacheEntry(...) as _store_in_memory builds it; put_with, put_deps and
\* put_at record the put the result came from: the dependency ids and the
\* dependency_results it was given, and its time
NewEntry(c, result, dependency_keys, put_deps, put_at) ==
    [result |-> result, created_at |-> c.now, accessed_at |-> Stamp(c),
     access_count |-> 0, dependency_keys |-> dependency_keys,
     put_with |-> {d \in Range(CacheTask(result.task_id).depends_on) :
                      put_deps[d] # "-"},
     put_deps |-> put_deps, put_at |-> put_at]

\* _evict_lru with max for min: the most recently used entry goes
evict_mru(c) ==
    IF DOMAIN c.memory_cache = {} THEN c
    ELSE LET mru_key == CHOOSE k \in DOMAIN c.memory_cache :
                            \A j \in DOMAIN c.memory_cache :
                                c.memory_cache[k].accessed_at
                                    >= c.memory_cache[j].accessed_at
         IN  [c EXCEPT !.memory_cache = Restrict(@, DOMAIN @ \ {mru_key}),
                       !.evictions = @ + 1]

\* _evict_lru
evict_lru(c) ==
    IF DOMAIN c.memory_cache = {} THEN c
    ELSE LET lru_key == CHOOSE k \in DOMAIN c.memory_cache :
                            \A j \in DOMAIN c.memory_cache :
                                c.memory_cache[k].accessed_at
                                    <= c.memory_cache[j].accessed_at
         IN  [c EXCEPT !.memory_cache = Restrict(@, DOMAIN @ \ {lru_key}),
                       !.evictions = @ + 1]

\* _store_in_memory
store_in_memory(c, key, entry) ==
    LET c1 == IF Cardinality(DOMAIN c.memory_cache) >= c.max_size
              THEN evict_lru(c) ELSE c
    IN  [c1 EXCEPT !.memory_cache =
                       [k \in DOMAIN @ \cup {key} |-> IF k = key THEN entry ELSE @[k]]]

\* _save_to_disk: the file of the key is written anew
save_to_disk(c, key, result, put_deps) ==
    IF ~c.cache_dir THEN c
    ELSE [c EXCEPT !.disk =
                       [k \in DOMAIN @ \cup {key} |->
                           IF k = key
                           THEN [result |-> result, mtime |-> c.now,
                                 readable |-> TRUE, put_deps |-> put_deps]
                           ELSE @[k]]]

\* _load_from_disk: the cache after the call (an expired file is unlinked)
\* and what it returned; a file that pickle cannot load gives None
load_from_disk(c, key) ==
    IF ~c.cache_dir \/ key \notin DOMAIN c.disk
    THEN [c |-> c, found |-> FALSE]
    ELSE IF c.has_ttl /\ c.now - c.disk[key].mtime >= c.ttl_seconds
    THEN [c |-> [c EXCEPT !.disk = Restrict(@, DOMAIN @ \ {key})], found |-> FALSE]
    ELSE [c |-> c, found |-> c.disk[key].readable]

Missed(c, key) == [c EXCEPT !.misses = @ + 1, !.result = NoHit, !.key = key]

\* get with the hit on the disk tier left uncounted
get_disk_hit_uncounted(c, task, deps) ==
    IF c.strategy = "none" THEN [c EXCEPT !.result = NoHit]
    ELSE LET key == generate(task, deps, c.include_dependencies) IN
         IF /\ c.strategy \in {"memory", "hybrid"}
            /\ key \in DOMAIN c.memory_cache
            /\ is_valid(c, c.memory_cache[key])
         THEN [c EXCEPT !.memory_cache[key].accessed_at = Stamp(c),
                        !.memory_cache[key].access_count = @ + 1,
                        !.hits = @ + 1,
                        !.result = c.memory_cache[key].result,
                        !.result_put_at = c.memory_cache[key].put_at,
                        !.key = key]
         ELSE IF c.strategy \in {"disk", "hybrid"}
         THEN LET l == load_from_disk(c, key) IN
              IF l.found
              THEN LET file == c.disk[key]
                       c1 == [l.c EXCEPT !.result = file.result,
                                         !.result_put_at = file.mtime,
                                         !.key = key]
                   IN  IF c.strategy = "hybrid"
                       THEN store_in_memory(c1, key,
                                NewEntry(c1, file.result, << >>, file.put_deps,
                                         file.mtime))
                       ELSE c1
              ELSE Missed(l.c, key)
         ELSE Missed(c, key)

\* get: the cache after the call, with what it returned in result
get(c, task, deps) ==
    IF c.strategy = "none" THEN [c EXCEPT !.result = NoHit]
    ELSE LET key == generate(task, deps, c.include_dependencies) IN
         IF /\ c.strategy \in {"memory", "hybrid"}
            /\ key \in DOMAIN c.memory_cache
            /\ is_valid(c, c.memory_cache[key])
         THEN [c EXCEPT !.memory_cache[key].accessed_at = Stamp(c),
                        !.memory_cache[key].access_count = @ + 1,
                        !.hits = @ + 1,
                        !.result = c.memory_cache[key].result,
                        !.result_put_at = c.memory_cache[key].put_at,
                        !.key = key]
         ELSE IF c.strategy \in {"disk", "hybrid"}
         THEN LET l == load_from_disk(c, key) IN
              IF l.found
              THEN LET file == c.disk[key]
                       c1 == [l.c EXCEPT !.hits = @ + 1,
                                         !.result = file.result,
                                         !.result_put_at = file.mtime,
                                         !.key = key]
                   IN  IF c.strategy = "hybrid"
                       THEN store_in_memory(c1, key,
                                NewEntry(c1, file.result, << >>, file.put_deps,
                                         file.mtime))
                       ELSE c1
              ELSE Missed(l.c, key)
         ELSE Missed(c, key)

put(c, task, result, deps) ==
    IF c.strategy = "none" THEN c
    ELSE LET key == generate(task, deps, c.include_dependencies)
             present(d) == deps[d] # "-"
             listed == IF c.include_dependencies /\ deps # NoDepResults
                       THEN SelectSeq(task.depends_on, present) ELSE << >>
             dep_keys == [i \in 1..Len(listed) |->
                             generate([id |-> listed[i], description |-> "",
                                       depends_on |-> << >>], NoDepResults, FALSE)]
             c1 == IF c.strategy \in {"memory", "hybrid"}
                   THEN store_in_memory(c, key,
                            NewEntry(c, result, dep_keys, deps, c.now))
                   ELSE c
             c2 == IF c.strategy \in {"disk", "hybrid"}
                   THEN save_to_disk(c1, key, result, deps) ELSE c1
         IN  [c2 EXCEPT !.key = key]

invalidate(c, task_id) ==
    LET keys_to_remove == {k \in DOMAIN c.memory_cache : KeyContains(c, k, task_id)}
        files == IF c.cache_dir
                 THEN {k \in DOMAIN c.disk : KeyContains(c, k, task_id)} ELSE {}
        count == Cardinality(keys_to_remove) + Cardinality(files)
    IN  [c EXCEPT !.memory_cache = Restrict(@, DOMAIN @ \ keys_to_remove),
                  !.disk = Restrict(@, DOMAIN @ \ files),
                  !.invalidations = @ + count,
                  !.count = count]

invalidate_dependents(c, task_id) ==
    LET task_key == Sha256Prefix(RawId(task_id))
        keys_to_remove == {k \in DOMAIN c.memory_cache :
                              task_key \in Range(c.memory_cache[k].dependency_keys)}
        count == Cardinality(keys_to_remove)
    IN  [c EXCEPT !.memory_cache = Restrict(@, DOMAIN @ \ keys_to_remove),
                  !.invalidations = @ + count,
                  !.count = count]

clear(c) ==
    [c EXCEPT !.memory_cache = << >>,
              !.disk = IF c.cache_dir THEN << >> ELSE @,
              !.hits = 0, !.misses = 0, !.evictions = 0, !.invalidations = 0]

\* ResultCache(CacheConfig(strategy, ttl_seconds, max_size,
\* include_dependencies)); cache_dir is set by the constructor for the disk
\* and hybrid strategies and None otherwise.  max_ops is the number of calls
\* the cache serves.
ResultCache(strategy, has_ttl, ttl, size, include, sub, max_ops) ==
    [on |-> TRUE, strategy |-> strategy, has_ttl |-> has_ttl, ttl_seconds |-> ttl,
     cache_dir |-> strategy \in {"disk", "hybrid"},
     include_dependencies |-> include, max_size |-> size,
     substring |-> sub, max_ops |-> max_ops,
     memory_cache |-> << >>, disk |-> << >>, now |-> 0,
     hits |-> 0, misses |-> 0, evictions |-> 0, invalidations |-> 0,
     op |-> "none", arg |-> "", deps |-> NoDepResults, key |-> Sha256Hex(RawId("")),
     count |-> 0, result |-> NoHit, result_put_at |-> 0, ops |-> 0]

\* ResultCache(CacheConfig(strategy=MEMORY, ...)) without TTL
NewCache(include, size, sub) ==
    ResultCache("memory", FALSE, 0, size, include, sub, MaxOps)

\* the cache c after a call, with the call recorded
Served(c, op, arg, deps) ==
    [c EXCEPT !.op = op, !.arg = arg, !.deps = deps, !.ops = @ + 1]

CallPut(id, o, deps) ==
    /\ cache.ops < cache.max_ops
    /\ cache' = Served(put(cache, CacheTask(id), [task_id |-> id, output |-> o], deps),
                       "put", id, deps)
    /\ UNCHANGED <<wf, bpm, run, cancels, api, router, state, agent_load, drivers, xpc,
                   xi, calls, nFail, firstOk, nRetry, nStart, timedOut>>

CallGet(id, deps) ==
    /\ cache.ops < cache.max_ops
    /\ cache' = Served(get(cache, CacheTask(id), deps), "get", id, deps)
    /\ UNCHANGED <<wf, bpm, run, cancels, api, router, state, agent_load, drivers, xpc,
                   xi, calls, nFail, firstOk, nRetry, nStart, timedOut>>

CallInvalidate(id) ==
    /\ cache.ops < cache.max_ops
    /\ cache' = Served(invalidate(cache, id), "invalidate", id, NoDepResults)
    /\ UNCHANGED <<wf, bpm, run, cancels, api, router, state, agent_load, drivers, xpc,
                   xi, calls, nFail, firstOk, nRetry, nStart, timedOut>>

CallInvalidateDependents(id) ==
    /\ cache.ops < cache.max_ops
    /\ cache' = Served(invalidate_dependents(cache, id), "invalidate_dependents", id,
                       NoDepResults)
    /\ UNCHANGED <<wf, bpm, run, cancels, api, router, state, agent_load, drivers, xpc,
                   xi, calls, nFail, firstOk, nRetry, nStart, timedOut>>

CallClear ==
    /\ cache.ops < cache.max_ops
    /\ cache' = Served(clear(cache), "clear", "", NoDepResults)
    /\ UNCHANGED <<wf, bpm, run, cancels, api, router, state, agent_load, drivers, xpc,
                   xi, calls, nFail, firstOk, nRetry, nStart, timedOut>>

\* the memory cache without TTL
InitCache ==
    /\ InitOrchestrator({w \in StateManagerWorkflows : w.tasks = << >>})
    /\ api = NoApi
    /\ bpm = NoBpm
    /\ router = NoRouter
    /\ \E include \in BOOLEAN, size \in {1, DefaultMaxSize}, sub \in BOOLEAN :
          cache = NewCache(include, size, sub)

NextCache ==
    \/ \E id \in CacheIds, o \in Outputs, deps \in DepResults : CallPut(id, o, deps)
    \/ \E id \in CacheIds, deps \in DepResults : CallGet(id, deps)
    \/ \E id \in CacheIds : CallInvalidate(id)
    \/ \E id \in CacheIds : CallInvalidateDependents(id)

SpecCache == InitCache /\ [][NextCache]_vars

(***************************************************************************)
(* The four strategies, with and without TTL, with room for one entry in   *)
(* memory, under calls for two tasks that give no dependency results,      *)
(* while time passes and files of the cache directory go bad.              *)
(***************************************************************************)
\* time passes: one unit of the clock
Tick ==
    /\ cache.now < MaxClock
    /\ cache' = [cache EXCEPT !.now = @ + 1, !.op = "tick"]
    /\ UNCHANGED <<wf, bpm, run, cancels, api, router, state, agent_load, drivers, xpc,
                   xi, calls, nFail, firstOk, nRetry, nStart, timedOut>>

\* the file of key k can no longer be unpickled
DiskFault(k) ==
    /\ k \in DOMAIN cache.disk
    /\ cache.disk[k].readable
    /\ cache' = [cache EXCEPT !.disk[k].readable = FALSE, !.op = "fault"]
    /\ UNCHANGED <<wf, bpm, run, cancels, api, router, state, agent_load, drivers, xpc,
                   xi, calls, nFail, firstOk, nRetry, nStart, timedOut>>

TierIds == {"dep", "e"}

TierKeys == {generate(CacheTask(id), NoDepResults, TRUE) : id \in TierIds}

InitTiers ==
    /\ InitOrchestrator({w \in StateManagerWorkflows : w.tasks = << >>})
    /\ api = NoApi
    /\ bpm = NoBpm
    /\ router = NoRouter
    /\ \E strategy \in CacheStrategies, has_ttl \in BOOLEAN, sub \in BOOLEAN :
          cache = ResultCache(strategy, has_ttl, IF has_ttl THEN TtlSeconds ELSE 0,
                              1, TRUE, sub, MaxTierOps)

NextTiers ==
    \/ \E id \in TierIds : CallPut(id, "o1", NoDepResults)
    \/ \E id \in TierIds : CallGet(id, NoDepResults)
    \/ \E id \in HexIds : CallInvalidate(id)
    \/ CallClear
    \/ Tick
    \/ \E k \in TierKeys : DiskFault(k)

SpecTiers == InitTiers /\ [][NextTiers]_vars

(***************************************************************************)
(* The memory tier at its capacity: the memory and the hybrid strategy     *)
(* without TTL, max_size 1 or 2, under calls for three tasks that give no  *)
(* dependency results.                                                     *)
(***************************************************************************)
InitLru ==
    /\ InitOrchestrator({w \in StateManagerWorkflows : w.tasks = << >>})
    /\ api = NoApi
    /\ bpm = NoBpm
    /\ router = NoRouter
    /\ \E strategy \in {"memory", "hybrid"}, size \in {1, 2}, sub \in BOOLEAN :
          cache = ResultCache(strategy, FALSE, 0, size, TRUE, sub, MaxLruOps)

NextLru ==
    \/ \E id \in CacheIds : CallPut(id, "o1", NoDepResults)
    \/ \E id \in CacheIds : CallGet(id, NoDepResults)
    \/ \E id \in HexIds : CallInvalidate(id)
    \/ CallClear

SpecLru == InitLru /\ [][NextLru]_vars

\* execute_workflow twice, beside a memory ResultCache with the default
\* config
InitRerun ==
    /\ InitOrchestrator(RerunWorkflows)
    /\ api = NoApi
    /\ bpm = NoBpm
    /\ router = NoRouter
    /\ cache = NewCache(TRUE, DefaultMaxSize, FALSE)

SpecRerun == InitRerun /\ [][NextRerun]_vars

(***************************************************************************)
(* topological_sort under a direct call, on workflows of up to three tasks *)
(* whose depends_on lists hold up to two ids of the workflow, a task's own *)
(* id and the same id twice included.  api.ok is FALSE when the call       *)
(* raised ValueError, api.ready is the list it returned otherwise.         *)
(***************************************************************************)
TopoTaskLists == {<< >>, <<"A">>, <<"A", "B">>, <<"A", "B", "C">>, <<"C", "B", "A">>}

DepLists(ids) == {<< >>} \cup {<<d>> : d \in ids} \cup (ids \X ids)

TopoWorkflows ==
    UNION {{[w EXCEPT !.tasks = ts, !.depends_on = deps] :
               deps \in {f \in [TaskIds -> DepLists(Range(ts))] :
                            \A t \in TaskIds \ Range(ts) : f[t] = << >>}} :
           ts \in TopoTaskLists, w \in {x \in StateManagerWorkflows : x.tasks = << >>}}

CallTopologicalSort ==
    /\ api.op = "none"
    /\ api' = [NoApi EXCEPT !.op = "topological_sort",
                            !.ok = topological_sort.ok,
                            !.ready = IF topological_sort.ok
                                      THEN topological_sort.order ELSE << >>]
    /\ UNCHANGED <<wf, bpm, run, cancels, router, cache, state, agent_load, drivers,
                   xpc, xi, calls, nFail, firstOk, nRetry, nStart, timedOut>>

InitTopologicalSort ==
    /\ InitOrchestrator(TopoWorkflows)
    /\ api = NoApi
    /\ bpm = NoBpm
    /\ router = NoRouter
    /\ cache = NoCache

SpecTopologicalSort == InitTopologicalSort /\ [][CallTopologicalSort]_vars

(***************************************************************************)
(* get_dependency_chain under a direct call, on workflows of up to three   *)
(* tasks whose depends_on lists hold up to two ids: ids of the workflow,   *)
(* a task's own id, the same id twice, ids on a cycle and ids that name no *)
(* task.  api.ret is the id asked for, api.ready the list returned.        *)
(***************************************************************************)
RECURSIVE traverse_preorder(_, _, _)
RECURSIVE traverse_all_preorder(_, _, _, _)

\* _traverse with chain.append(tid) moved before the loop over depends_on
traverse_preorder(w, tid, s) ==
    IF tid \in s.visited THEN s
    ELSE LET s1 == [s EXCEPT !.visited = @ \cup {tid}] IN
         IF tid \in Range(w.tasks)
         THEN traverse_all_preorder(w, w.depends_on[tid], 1,
                                    [s1 EXCEPT !.chain = Append(@, tid)])
         ELSE s1

traverse_all_preorder(w, deps, i, s) ==
    IF i > Len(deps) THEN s
    ELSE traverse_all_preorder(w, deps, i + 1, traverse_preorder(w, deps[i], s))

RECURSIVE traverse(_, _, _)
RECURSIVE traverse_all(_, _, _, _)

\* _traverse(tid), on s = [chain, visited]
traverse(w, tid, s) ==
    IF tid \in s.visited THEN s
    ELSE LET s1 == [s EXCEPT !.visited = @ \cup {tid}] IN
         IF tid \in Range(w.tasks)
         THEN [traverse_all(w, w.depends_on[tid], 1, s1)
                  EXCEPT !.chain = Append(@, tid)]
         ELSE s1

\* for dep_id in t.depends_on: _traverse(dep_id), from the i-th id on
traverse_all(w, deps, i, s) ==
    IF i > Len(deps) THEN s
    ELSE traverse_all(w, deps, i + 1, traverse(w, deps[i], s))

get_dependency_chain_preorder(w, task_id) ==
    IF task_id \notin Range(w.tasks) THEN << >>
    ELSE traverse_preorder(w, task_id, [chain |-> << >>, visited |-> {}]).chain

get_dependency_chain(w, task_id) ==
    IF task_id \notin Range(w.tasks) THEN << >>
    ELSE traverse(w, task_id, [chain |-> << >>, visited |-> {}]).chain

ChainTaskLists == {<< >>, <<"A">>, <<"A", "B">>, <<"A", "B", "C">>, <<"C", "B", "A">>}

ChainWorkflows ==
    UNION {{[w EXCEPT !.tasks = ts, !.depends_on = deps] :
               deps \in {f \in [TaskIds -> DepLists(TaskIds)] :
                            \A t \in TaskIds \ Range(ts) : f[t] = << >>}} :
           ts \in ChainTaskLists, w \in {x \in StateManagerWorkflows : x.tasks = << >>}}

CallGetDependencyChain(task_id) ==
    /\ api.op = "none"
    /\ api' = [NoApi EXCEPT !.op = "get_dependency_chain",
                            !.ret = task_id,
                            !.ready = get_dependency_chain(wf, task_id)]
    /\ UNCHANGED <<wf, bpm, run, cancels, router, cache, state, agent_load, drivers,
                   xpc, xi, calls, nFail, firstOk, nRetry, nStart, timedOut>>

InitDependencyChain ==
    /\ InitOrchestrator(ChainWorkflows)
    /\ api = NoApi
    /\ bpm = NoBpm
    /\ router = NoRouter
    /\ cache = NoCache

NextDependencyChain == \E task_id \in TaskIds : CallGetDependencyChain(task_id)

SpecDependencyChain == InitDependencyChain /\ [][NextDependencyChain]_vars

(***************************************************************************)
(* recommend_strategy and auto_select_strategy under a direct call, on     *)
(* workflows of up to three tasks, each with no or one dependency and with *)
(* condition None, "" or a string naming a task.  api.ret is the strategy  *)
(* returned.                                                               *)
(***************************************************************************)
SelectorTaskLists == {<< >>, <<"A">>, <<"A", "B">>, <<"A", "B", "C">>}

SelectorConds == {NoneCond, EmptyCond, Cond({"A"})}

SelectorWorkflows ==
    UNION {{[w EXCEPT !.tasks = ts, !.depends_on = deps, !.condition = conds,
                      !.execution_strategy = x] :
               deps \in {f \in [TaskIds -> {<< >>} \cup {<<d>> : d \in Range(ts)}] :
                            \A t \in TaskIds \ Range(ts) : f[t] = << >>},
               conds \in {f \in [TaskIds -> SelectorConds] :
                            \A t \in TaskIds \ Range(ts) : f[t] = NoneCond},
               x \in Strategies} :
           ts \in SelectorTaskLists, w \in {x \in StateManagerWorkflows : x.tasks = << >>}}

CallRecommendStrategy ==
    /\ api.op = "none"
    /\ api' = [NoApi EXCEPT !.op = "recommend_strategy", !.ret = recommend_strategy(wf)]
    /\ UNCHANGED <<wf, bpm, run, cancels, router, cache, state, agent_load, drivers,
                   xpc, xi, calls, nFail, firstOk, nRetry, nStart, timedOut>>

CallAutoSelectStrategy ==
    /\ api.op = "none"
    /\ api' = [NoApi EXCEPT !.op = "auto_select_strategy",
                            !.ret = auto_select_strategy(wf)]
    /\ UNCHANGED <<wf, bpm, run, cancels, router, cache, state, agent_load, drivers,
                   xpc, xi, calls, nFail, firstOk, nRetry, nStart, timedOut>>

InitSelector ==
    /\ InitOrchestrator(SelectorWorkflows)
    /\ api = NoApi
    /\ bpm = NoBpm
    /\ router = NoRouter
    /\ cache = NoCache

NextSelector ==
    \/ CallRecommendStrategy
    \/ CallAutoSelectStrategy

SpecSelector == InitSelector /\ [][NextSelector]_vars

(***************************************************************************)
(* ApprovalEngine (examples/distributed_orchestration/bpm/                 *)
(* approval_engine.py) under direct calls, with one ApprovalChain created  *)
(* for the process id ProcessId.  The steps have no auto_approve_rule (the *)
(* default); a step is given by the length of its escalation_path.  A      *)
(* request keeps its step_index, status and escalation_count; deadlines    *)
(* are not modelled.                                                       *)
(***************************************************************************)
ProcessId == "p"
ProcessIds == {ProcessId, "unknown"}

ApprovalSteps == [escalation_path : 0..1]

ApprovalChains == UNION {[1..n -> ApprovalSteps] : n \in 0..MaxSteps}

\* ApprovalChain.get_current_step: << >> for None
get_current_step(e) ==
    IF e.current_step_index < Len(e.steps)
    THEN <<e.steps[e.current_step_index + 1]>> ELSE << >>

\* the value ApprovalChain.advance returns
advanced(e) == e.current_step_index < Len(e.steps) - 1

\* ApprovalChain.advance
advance(e) ==
    IF advanced(e) THEN [e EXCEPT !.current_step_index = @ + 1] ELSE e

\* ApprovalChain.is_complete
is_complete(e) == e.current_step_index >= Len(e.steps)

\* the tuple (success, message) a call returns
Outcome(ok, message) == [ok |-> ok, message |-> message]

\* _create_next_requests, for steps without auto_approve_rule
create_next_requests(e) ==
    IF get_current_step(e) = << >> THEN e
    ELSE [e EXCEPT !.active_requests =
                       Append(@, [step_index |-> e.current_step_index,
                                  status |-> "pending",
                                  escalation_count |-> 0])]

\* create_approval_request
create_approval_request(e) ==
    create_next_requests([e EXCEPT !.created = TRUE, !.active_requests = << >>])

\* _make_decision
make_decision(e, process_id, approver, decision_type) ==
    IF ~(process_id = ProcessId /\ e.created)
    THEN [e EXCEPT !.ret = Outcome(FALSE, "No active approval request")]
    ELSE IF e.active_requests = << >>
    THEN [e EXCEPT !.ret = Outcome(FALSE, "No pending approval requests")]
    ELSE LET request == Head(e.active_requests)
             decision == [step_index |-> request.step_index,
                          approver |-> approver, decision |-> decision_type]
             e1 == [e EXCEPT !.approval_history = Append(@, decision),
                             !.active_requests = Tail(@)]
         IN  IF decision_type = "approved"
             THEN IF advanced(e1)
                  THEN [create_next_requests(advance(e1)) EXCEPT
                           !.ret = Outcome(TRUE, "Advanced to next approval step")]
                  ELSE [advance(e1) EXCEPT
                           !.ret = Outcome(TRUE, "All approvals complete")]
             ELSE [e1 EXCEPT !.ret = Outcome(TRUE, "Rejected")]

approve(e, process_id, approver) ==
    make_decision(e, process_id, approver, "approved")

reject(e, process_id, approver) ==
    make_decision(e, process_id, approver, "rejected")

\* escalate: the count of the first request grows also when the call fails
escalate(e, process_id) ==
    IF ~(process_id = ProcessId /\ e.created)
    THEN [e EXCEPT !.ret = Outcome(FALSE, "No active approval request")]
    ELSE IF e.active_requests = << >>
    THEN [e EXCEPT !.ret = Outcome(FALSE, "No pending approval requests")]
    ELSE LET request == Head(e.active_requests)
             path == e.steps[request.step_index + 1].escalation_path
             e1 == [e EXCEPT !.active_requests[1].escalation_count = @ + 1]
         IN  IF path = 0
             THEN [e1 EXCEPT !.ret = Outcome(FALSE, "No escalation path defined")]
             ELSE IF request.escalation_count + 1 > path
             THEN [e1 EXCEPT !.ret = Outcome(FALSE, "Escalation path exhausted")]
             ELSE [e1 EXCEPT !.active_requests[1].status = "escalated",
                             !.ret = Outcome(TRUE, "Escalated")]

\* get_pending_approvals()
get_pending_approvals(e) ==
    SelectSeq(e.active_requests, LAMBDA r : r.status = "pending")

\* get_approval_status(process_id), without the history listing
get_approval_status(e, process_id) ==
    LET known == process_id = ProcessId /\ e.created IN
    [total_steps |-> IF known THEN Len(e.steps) ELSE 0,
     current_step |-> IF known THEN e.current_step_index ELSE -1,
     is_complete |-> IF known THEN is_complete(e) ELSE FALSE,
     decisions_count |-> IF known THEN Len(e.approval_history) ELSE 0,
     pending_requests |-> IF known THEN Len(e.active_requests) ELSE 0]

\* ApprovalEngine() and ApprovalChain(steps)
ApprovalEngine(steps) ==
    [kind |-> "approval", steps |-> steps, current_step_index |-> 0,
     created |-> FALSE, active_requests |-> << >>, approval_history |-> << >>,
     op |-> "none", ret |-> Outcome(TRUE, "")]

BpmIdle ==
    UNCHANGED <<wf, state, agent_load, drivers, xpc, xi, calls, nFail, firstOk,
                nRetry, nStart, timedOut, cancels, api, router, cache, run>>

CallCreateApprovalRequest ==
    /\ ~bpm.created
    /\ bpm' = [create_approval_request(bpm) EXCEPT !.op = "create_approval_request"]
    /\ BpmIdle

CallApprove(process_id) ==
    /\ bpm' = [approve(bpm, process_id, "u") EXCEPT !.op = "approve"]
    /\ BpmIdle

CallReject(process_id) ==
    /\ bpm' = [reject(bpm, process_id, "u") EXCEPT !.op = "reject"]
    /\ BpmIdle

CallEscalate(process_id) ==
    /\ process_id = ProcessId /\ bpm.created /\ bpm.active_requests # << >>
          => Head(bpm.active_requests).escalation_count < MaxEscalations
    /\ bpm' = [escalate(bpm, process_id) EXCEPT !.op = "escalate"]
    /\ BpmIdle

InitApproval ==
    /\ InitOrchestrator({w \in StateManagerWorkflows : w.tasks = << >>})
    /\ api = NoApi
    /\ router = NoRouter
    /\ cache = NoCache
    /\ \E steps \in ApprovalChains : bpm = ApprovalEngine(steps)

NextApproval ==
    \/ CallCreateApprovalRequest
    \/ \E process_id \in ProcessIds : CallApprove(process_id)
    \/ \E process_id \in ProcessIds : CallReject(process_id)
    \/ \E process_id \in ProcessIds : CallEscalate(process_id)

SpecApproval == InitApproval /\ [][NextApproval]_vars

(***************************************************************************)
(* BPMOrchestrator (bpm_orchestrator.py) with its StateMachine             *)
(* (state_machine.py) and SLATracker (sla_tracker.py), for one process     *)
(* instance.  The process definition has three states and the transitions  *)
(* below; at most one of its hooks misbehaves (fault), and an SLA is       *)
(* defined for the states in sla_definitions.  state_data, which only the  *)
(* hooks read and write, and the timestamps are not modelled; whether an   *)
(* SLA is completed after its deadline is a choice of the caller's clock.  *)
(***************************************************************************)
ProcessStates == {"s0", "s1", "s2"}

InitialState == "s0"

TransitionDefinitions ==
    <<[from_state |-> "s0", to_state |-> "s1"],
      [from_state |-> "s1", to_state |-> "s2"],
      [from_state |-> "s1", to_state |-> "s0"]>>

Faults ==
    {[kind |-> "none", state |-> "", transition |-> 0]}
        \cup {[kind |-> k, state |-> s, transition |-> 0] :
                 k \in {"on_exit raises", "on_enter raises"}, s \in ProcessStates}
        \cup {[kind |-> k, state |-> "", transition |-> i] :
                 k \in {"condition false", "condition raises", "action raises"},
                 i \in 1..Len(TransitionDefinitions)}

\* the transitions of the machine from from_state to to_state, in list order
matching_transitions(from_state, to_state) ==
    SelectSeq([i \in 1..Len(TransitionDefinitions) |-> i],
              LAMBDA i : /\ TransitionDefinitions[i].from_state = from_state
                         /\ TransitionDefinitions[i].to_state = to_state)

\* StateMachine.can_transition
can_transition(o, from_state, to_state) ==
    LET matching == matching_transitions(from_state, to_state) IN
    IF matching = << >> THEN Outcome(FALSE, "No transition defined")
    ELSE IF o.fault.kind = "condition false" /\ o.fault.transition = matching[1]
    THEN Outcome(FALSE, "Transition condition not satisfied")
    ELSE IF o.fault.kind = "condition raises" /\ o.fault.transition = matching[1]
    THEN Outcome(FALSE, "Error evaluating transition condition")
    ELSE Outcome(TRUE, "Transition is valid")

\* StateMachine.transition on the ProcessState of the instance: the
\* orchestrator after the call, with the TransitionResult in result
transition(o, to_state) ==
    LET current_state == o.state_name
        valid == can_transition(o, current_state, to_state)
        i == matching_transitions(current_state, to_state)[1]
        event == [from_state |-> current_state, to_state |-> to_state]
    IN  IF ~valid.ok
        THEN [o EXCEPT !.result = "INVALID_TRANSITION", !.ret = valid]
        ELSE IF \/ o.fault.kind = "on_exit raises" /\ o.fault.state = current_state
                \/ o.fault.kind = "action raises" /\ o.fault.transition = i
        THEN [o EXCEPT !.result = "ERROR",
                       !.ret = Outcome(FALSE, "Error during transition")]
        ELSE IF o.fault.kind = "on_enter raises" /\ o.fault.state = to_state
        THEN [o EXCEPT !.history = Append(@, event), !.state_name = to_state,
                       !.result = "ERROR",
                       !.ret = Outcome(FALSE, "Error during transition")]
        ELSE [o EXCEPT !.history = Append(@, event), !.state_name = to_state,
                       !.result = "SUCCESS",
                       !.ret = Outcome(TRUE, "Transitioned")]

\* SLATracker.start_sla(process_id, state_name)
start_sla(o, state_name) ==
    IF state_name \notin o.sla_definitions THEN o
    ELSE [o EXCEPT !.active_slas = <<state_name>>]

\* SLATracker.complete_sla(process_id); late: now is after the deadline
complete_sla(o, late) ==
    IF o.active_slas = << >> THEN o
    ELSE [o EXCEPT !.active_slas = << >>,
                   !.violation_history = IF late THEN @ + 1 ELSE @]

\* BPMOrchestrator.start_process
start_process(o) ==
    start_sla([o EXCEPT !.started = TRUE, !.state_name = InitialState,
                        !.audit_trail = Append(@, "process_created")],
              InitialState)

\* BPMOrchestrator.transition_state
transition_state(o, process_id, to_state, late) ==
    IF ~(process_id = ProcessId /\ o.started)
    THEN [o EXCEPT !.ret = Outcome(FALSE, "Process not found")]
    ELSE LET o1 == transition(complete_sla(o, late), to_state) IN
         IF o1.result = "SUCCESS"
         THEN start_sla([o1 EXCEPT !.audit_trail = Append(@, "state_transition")],
                        to_state)
         ELSE o1

\* BPMOrchestrator(process_definition) before start_process
BPMOrchestrator(fault, sla_definitions) ==
    [kind |-> "orchestrator", fault |-> fault, sla_definitions |-> sla_definitions,
     started |-> FALSE, state_name |-> "", history |-> << >>,
     active_slas |-> << >>, violation_history |-> 0, audit_trail |-> << >>,
     result |-> "", op |-> "none", ret |-> Outcome(TRUE, "")]

CallStartProcess ==
    /\ ~bpm.started
    /\ bpm' = [start_process(bpm) EXCEPT !.op = "start_process"]
    /\ BpmIdle

CallTransitionState(process_id, to_state) ==
    /\ Len(bpm.history) < MaxHistory
    /\ \E late \in BOOLEAN :
          /\ late => bpm.violation_history < MaxViolations
          /\ bpm' = [transition_state(bpm, process_id, to_state, late)
                        EXCEPT !.op = "transition_state"]
    /\ BpmIdle

InitBpm ==
    /\ InitOrchestrator({w \in StateManagerWorkflows : w.tasks = << >>})
    /\ api = NoApi
    /\ router = NoRouter
    /\ cache = NoCache
    /\ \E fault \in Faults, sla_definitions \in SUBSET ProcessStates :
          bpm = BPMOrchestrator(fault, sla_definitions)

NextBpm ==
    \/ CallStartProcess
    \/ \E process_id \in ProcessIds, to_state \in ProcessStates :
          CallTransitionState(process_id, to_state)

SpecBpm == InitBpm /\ [][NextBpm]_vars

(***************************************************************************)
(* Properties.                                                             *)
(***************************************************************************)
Tasks == Range(wf.tasks)

Returned == xpc = "returned"

\* the run reaches the drivers: the DAG executor found no cycle
DriversRun == wf.execution_strategy = "dag" => topological_sort.ok

Memberships(t) ==
    Cardinality({s \in {"pending", "current", "completed", "failed"} :
                   t \in (CASE s = "pending" -> state.pending_tasks
                            [] s = "current" -> state.current_tasks
                            [] s = "completed" -> state.completed_tasks
                            [] OTHER -> state.failed_tasks)})

\* C1: in every reachable state of a run driven by the per-task driver, no
\* task id is in more than one of pending_tasks, current_tasks,
\* completed_tasks and failed_tasks, and a task whose result status is
\* skipped is in none of the four.
C1_SetsDisjoint ==
    DriversRun =>
        \A t \in Tasks :
            /\ Memberships(t) <= 1
            /\ state.task_results[t].status = "skipped" => Memberships(t) = 0

\* C2: when execute_workflow has returned and every driver has ended, a task
\* whose agent failed its first k calls and succeeded on every later call,
\* with k <= max_retries, is completed with retry_count = k after exactly
\* k + 1 agent invocations, under every execution strategy.
C2_RetryThenSuccess ==
    (Returned /\ ~timedOut /\ drivers = EmptyBag) =>
        \A t \in Tasks :
            (firstOk[t] >= 0 /\ nFail[t] = firstOk[t]
                /\ firstOk[t] <= wf.max_retries[t]) =>
                /\ state.task_results[t].status = "completed"
                /\ state.task_results[t].retry_count = firstOk[t]
                /\ calls[t] = firstOk[t] + 1

\* C3: the number of retry_task calls made for a task never exceeds the
\* task's retry_config.max_retries.
C3_RetryCallsBounded == \A t \in Tasks : nRetry[t] <= wf.max_retries[t]

\* C4: whenever execute_workflow has returned a state whose status is
\* completed, pending_tasks and current_tasks are both empty (stated for the
\* runs that reach the drivers).
C4_CompletedMeansNothingLeft ==
    (DriversRun /\ Returned /\ state.status = "completed") =>
        (state.pending_tasks = {} /\ state.current_tasks = {})

\* the terminal status the error-handling section prescribes
PrescribedStatus ==
    LET done(t) == get_task_status(state, t) \in {"completed", "skipped"}
        completed(t) == get_task_status(state, t) = "completed"
        failed(t) == get_task_status(state, t) = "failed"
    IN  IF \A t \in Tasks : done(t) THEN "completed"
        ELSE IF /\ wf.continue_on_failure
                /\ \E t \in Tasks : completed(t)
                /\ \E t \in Tasks : failed(t) THEN "partial"
        ELSE "failed"

\* C5: when execute_workflow returns, the workflow status is completed iff
\* every task reached completed or skipped and none failed, partial iff
\* continue_on_failure was true and at least one task completed and at least
\* one failed, and failed in every other case (stated for the runs that
\* reach the drivers).
C5_TerminalStatus ==
    [][(DriversRun /\ xpc # "returned" /\ xpc' = "returned") =>
          (state.status = PrescribedStatus)']_vars

\* C6: for a workflow with a dependency cycle run by the DAG executor, no
\* driver is invoked, every task has a failed TaskResult carrying the cycle
\* message, every task is in failed_tasks and in no other set, and the
\* workflow status is failed.
C6_CycleFailsEveryTask ==
    (Returned /\ wf.execution_strategy = "dag" /\ ~topological_sort.ok) =>
        /\ state.status = "failed"
        /\ \A t \in Tasks :
              /\ nStart[t] = 0 /\ calls[t] = 0
              /\ state.task_results[t].status = "failed"
              /\ state.task_results[t].error = ErrCycle
              /\ t \in state.failed_tasks
              /\ Memberships(t) = 1

\* C7: with continue_on_failure false, once a task has failed permanently,
\* every task that was not started ends skipped with reason "Previous task
\* failed" and the workflow status is failed.
C7_FailFastSkipsTheRest ==
    (/\ Returned /\ ~timedOut /\ drivers = EmptyBag
     /\ ~wf.continue_on_failure /\ topological_sort.ok
     /\ \E t \in Tasks : state.task_results[t].status = "failed") =>
        /\ state.status = "failed"
        /\ \A u \in Tasks :
              nStart[u] = 0 =>
                  /\ state.task_results[u].status = "skipped"
                  /\ state.task_results[u].error = ErrPrevFailed

\* C8: in the DAG executor, whenever start_task runs for a task, every id in
\* its depends_on has status completed: no task starts while a dependency
\* is pending, running, retrying, failed or skipped.
C8_StartsAfterDependencies ==
    [][\A t \in Tasks :
          (wf.execution_strategy = "dag" /\ nStart'[t] > nStart[t]) =>
              \A d \in Range(wf.depends_on[t]) :
                  get_task_status(state, d) = "completed"]_vars

\* the driver invocations in progress: under the parallel executor the
\* drivers that hold the semaphore, under the DAG executor active_tasks
InProgress ==
    IF wf.execution_strategy = "parallel" THEN CountPc(drivers, InFlight)
    ELSE CountPc(drivers, {"new", "agent", "sleep"})

\* C9: under the parallel and the DAG executor, at every instant at most
\* max_parallel_tasks driver invocations are in progress.
C9_AtMostMaxParallel ==
    wf.execution_strategy \in {"parallel", "dag"} =>
        InProgress <= wf.max_parallel_tasks

\* C9 witness: the DAG executor waits with max_parallel_tasks drivers in
\* flight while a further task is ready and has no driver.
C9_Witness ==
    /\ xpc = "dagwait"
    /\ CountPc(drivers, InFlight) = wf.max_parallel_tasks
    /\ \E t \in state.pending_tasks \ state.current_tasks : is_task_ready(state, t)

\* C10: the load counter of every executor id is >= 0 in every reachable
\* state and is 0 once execute_workflow has returned, however the workflow
\* ended.
C10_LoadReturnsToZero ==
    \A a \in Agents :
        /\ agent_load[a] >= 0
        /\ Returned => agent_load[a] = 0

\* C11: when the workflow deadline expires while drivers are in flight,
\* execute_workflow returns with workflow status failed and current_tasks
\* empty, every task that was in flight is recorded as failed, in
\* failed_tasks, with a cancellation error, and no task id is in two sets.
C11_DeadlineFailsInFlight ==
    [][(~timedOut /\ timedOut') =>
          /\ state'.status = "failed"
          /\ state'.current_tasks = {}
          /\ \A d \in BagToSet(drivers) :
                d.pc \in InFlight =>
                    /\ state'.task_results[d.task].status = "failed"
                    /\ state'.task_results[d.task].error \notin {"", ErrAgent}
                    /\ d.task \in state'.failed_tasks
                    /\ d.task \notin state'.pending_tasks \cup state'.completed_tasks]_vars

\* the edges of the task status graph
StatusEdges ==
    { <<"pending", "running">>, <<"running", "completed">>,
      <<"running", "failed">>, <<"running", "retrying">>,
      <<"retrying", "pending">>, <<"retrying", "running">>,
      <<"pending", "skipped">> }

\* C15: in every workflow run the observable status of each task changes
\* only along pending -> running, running -> completed, running -> failed,
\* running -> retrying, retrying -> pending or running, pending -> skipped.
C15_StatusEdgesOnly ==
    [][\A t \in Tasks :
          \/ get_task_status(state', t) = get_task_status(state, t)
          \/ <<get_task_status(state, t), get_task_status(state', t)>> \in StatusEdges]_vars

\* C16: for a task with max_retries = 0 whose agent call failed, the driver
\* made exactly one agent call and no retry_task call, and the task is in
\* failed_tasks with status failed, the agent's error and retry_count 0.
C16_NoRetryAtZero ==
    \A t \in Tasks :
        (wf.max_retries[t] = 0 /\ nFail[t] > 0) =>
            /\ calls[t] = 1
            /\ nRetry[t] = 0
            /\ t \in state.failed_tasks
            /\ state.task_results[t].status = "failed"
            /\ state.task_results[t].error = ErrAgent
            /\ state.task_results[t].retry_count = 0

\* C16 witness: execute_workflow has returned after the only agent call of a
\* task with max_retries = 0 failed.
C16_Witness ==
    /\ Returned /\ ~timedOut
    /\ \E t \in Tasks :
          /\ wf.max_retries[t] = 0
          /\ nFail[t] = 1
          /\ state.task_results[t].status = "failed"

\* C12: for a task with timeout_seconds set, the driver never waits on one
\* agent call beyond the task's timeout: a call that has not returned within
\* timeout_seconds is ended (and then counts as a failed attempt).
C12_AgentCallBounded ==
    \A d \in BagToSet(drivers) : ~(d.pc = "agent" /\ d.late)

\* the cancel_workflow call made by the step, when the step is one
LastCancel == cancels'[1]

\* C13: cancel_workflow(id) returns true exactly when a workflow with that
\* id exists and its status is running, and it then moves the workflow to
\* status failed with the cancellation reason; in every other case it
\* returns false and changes nothing.
C13_CancelOnlyRunning ==
    [][cancels' # cancels =>
          /\ LastCancel.ret =
                (LastCancel.id = WorkflowId /\ xpc # "begin" /\ state.status = "running")
          /\ LastCancel.ret =>
                state' = [state EXCEPT !.status = "failed", !.error = ErrCancelled]
          /\ ~LastCancel.ret => state' = state
          /\ UNCHANGED <<wf, bpm, run, agent_load, drivers, xpc>>]_vars

\* C13 witness: a cancel_workflow call on the running workflow returned true
\* and the workflow is failed with the cancellation reason.
C13_Witness ==
    /\ cancels # << >>
    /\ cancels[1].ret
    /\ state.status = "failed"
    /\ state.error = ErrCancelled
    /\ CountPc(drivers, InFlight) > 0

\* C14: once the workflow status is completed or failed (also failed through
\* cancel_workflow while the executor is still running), no later step
\* changes the WorkflowState.
C14_FrozenOnceTerminal ==
    [][state.status \in {"completed", "failed"} => state' = state]_vars

\* C17: for a task T with a condition naming task X and no depends_on, a
\* get_ready_tasks call made before X has completed does not return T, and
\* a get_ready_tasks call made after X has completed returns T, as long as
\* T was not started.
C17_ConditionBecomesReady ==
    [][api'.op = "get_ready_tasks" =>
          \A T \in Tasks :
              (wf.condition[T].set /\ wf.depends_on[T] = << >>) =>
                  \A X \in wf.condition[T].ids :
                      /\ X \notin state.completed_tasks =>
                            T \notin Range(api'.ready)
                      /\ (X \in state.completed_tasks /\ nStart[T] = 0) =>
                            T \in Range(api'.ready)]_vars

\* the positions of router.routing whose capability set is a superset of
\* the required capabilities, and those of them under their cap
SuitableAt ==
    {i \in 1..Len(router.routing) : router.caps \subseteq router.routing[i].capabilities}

UnderCapAt ==
    {i \in SuitableAt :
        router.load[router.routing[i].agent_type]
            < router.routing[i].max_concurrent_tasks}

\* position i sorts before position j: ascending load, then descending
\* priority, then descending capability count, then the order of the config
SortsBefore(i, j) ==
    LET e == router.routing[i]
        f == router.routing[j]
        key(r) == <<router.load[r.agent_type], 0 - r.priority,
                    0 - Cardinality(r.capabilities)>>
        first == CHOOSE k \in 1..4 :
                    /\ k < 4 => key(e)[k] # key(f)[k]
                    /\ \A m \in 1..(k - 1) : key(e)[m] = key(f)[m]
    IN  IF first < 4 THEN key(e)[first] < key(f)[first] ELSE i < j

StoredFor(c, id) ==
    {k \in DOMAIN c.memory_cache : c.memory_cache[k].result.task_id = id}

\* C19: after put(task, result) into a memory cache, invalidate(task.id)
\* removes every memory entry stored for that task id, returns a count > 0
\* and adds that count to the invalidations counter (so that a following
\* get(task) returns None).
C19_InvalidateRemoves ==
    [][(cache'.op = "invalidate" /\ StoredFor(cache, cache'.arg) # {}) =>
          /\ cache'.count > 0
          /\ StoredFor(cache', cache'.arg) = {}
          /\ cache'.invalidations = cache.invalidations + cache'.count]_vars

\* the keys of the memory entries of cache c that were put with a result of
\* task id among their dependency results
DependentsOf(c, id) ==
    {k \in DOMAIN c.memory_cache : id \in c.memory_cache[k].put_with}

\* C20: with include_dependencies = true, after put(T, result, deps) for a
\* task T with D in T.depends_on and D in deps, invalidate_dependents(D)
\* removes T's memory entry and returns a count >= 1, and leaves in place
\* the entries of tasks that do not depend on D.
C20_InvalidateDependents ==
    [][(/\ cache'.op = "invalidate_dependents"
        /\ cache.include_dependencies
        /\ DependentsOf(cache, cache'.arg) # {}) =>
          /\ cache'.count >= 1
          /\ DependentsOf(cache', cache'.arg) = {}
          /\ \A k \in DOMAIN cache.memory_cache \ DependentsOf(cache, cache'.arg) :
                k \in DOMAIN cache'.memory_cache]_vars

\* the task ids that w's task t reaches through depends_on in one to n steps
RECURSIVE ReachedFrom(_, _, _)
ReachedFrom(w, t, n) ==
    IF n = 0 THEN {}
    ELSE LET direct == Range(w.depends_on[t]) IN
         direct \cup UNION {ReachedFrom(w, d, n - 1) : d \in direct}

\* no task of w depends on itself, directly or through other tasks
Acyclic(w) == \A t \in Range(w.tasks) : t \notin ReachedFrom(w, t, Len(w.tasks))

\* C26: topological_sort returns a list holding every task id of the
\* workflow exactly once, each task after all ids of its depends_on,
\* whenever the dependency graph is acyclic (a dependency listed twice counts
\* once); it raises the circular-dependency error exactly when the graph has
\* a cycle.
C26_TopologicalSort ==
    api.op = "topological_sort" =>
        /\ api.ok <=> Acyclic(wf)
        /\ api.ok =>
              /\ Len(api.ready) = Len(wf.tasks)
              /\ Range(api.ready) = Range(wf.tasks)
              /\ \A i, j \in 1..Len(api.ready) :
                    api.ready[i] \in Range(wf.depends_on[api.ready[j]]) => i < j

\* the strategy of the decision table for workflow w
TableStrategy(w) ==
    IF \E t \in Range(w.tasks) : w.condition[t].set THEN "conditional"
    ELSE IF (\A t \in Range(w.tasks) : w.depends_on[t] = << >>) /\ Len(w.tasks) > 1
    THEN "parallel"
    ELSE IF \E t \in Range(w.tasks) : w.depends_on[t] # << >> THEN "dag"
    ELSE "sequential"

\* C27: recommend_strategy returns conditional if any task has a non-empty
\* condition; else parallel if no task has dependencies and there is more
\* than one task; else dag if any task has dependencies; else sequential.
C27_RecommendStrategy ==
    api.op = "recommend_strategy" => api.ret = TableStrategy(wf)

\* the executor whose code the position pc of execute_workflow lies in
ExecutorAt(pc) ==
    CASE pc \in {"parallel", "gather"} -> "parallel"
      [] pc \in {"dag", "dagwait", "dagwaitall"} -> "dag"
      [] OTHER -> pc

\* execute_workflow is inside executor.execute()
Executing == xpc \notin {"begin", "returned"}

\* C28 as stated: with auto_strategy true, execute_workflow runs the
\* workflow under the strategy the selector's decision table recommends,
\* whatever execution_strategy the workflow declares; with auto_strategy
\* false it runs under the declared strategy.
C28_AutoRunsRecommended ==
    Executing =>
        ExecutorAt(xpc) = IF run.auto_strategy THEN recommend_strategy(wf)
                          ELSE wf.execution_strategy

\* C28 amended: with auto_strategy true, execute_workflow runs the workflow
\* under the selector's recommendation when the workflow declares dag (the
\* default) and under the declared strategy when it declares any other;
\* with auto_strategy false it runs under the declared strategy.
C28_AutoKeepsExplicitChoice ==
    Executing =>
        ExecutorAt(xpc) = IF run.auto_strategy /\ wf.execution_strategy = "dag"
                          THEN recommend_strategy(wf)
                          ELSE wf.execution_strategy

\* C28 witness: a workflow of independent tasks that declares dag, run with
\* auto_strategy, is under the parallel executor with a driver in flight.
C28_Witness ==
    /\ run.auto_strategy
    /\ wf.execution_strategy = "dag"
    /\ xpc = "gather"
    /\ CountPc(drivers, InFlight) > 0

\* the position of task t in workflow.tasks
Pos(t) == CHOOSE i \in 1..Len(wf.tasks) : wf.tasks[i] = t

Ended(st, t) == get_task_status(st, t) \in {"completed", "failed", "skipped"}

\* C29: the sequential executor invokes the driver for the tasks strictly in
\* declaration order and one at a time (a driver starts only after the
\* previous one returned); with continue_on_failure false, after the first
\* task that ends failed no later driver is invoked and every later task
\* ends skipped with reason "Previous task failed".
C29_SequentialInOrder ==
    /\ [][\A t \in Tasks :
             (xpc = "sequential" /\ nStart'[t] > nStart[t]) =>
                 /\ \A d \in BagToSet(drivers) : d.task = t
                 /\ BagCardinality(drivers) = 1
                 /\ \A u \in Tasks :
                       /\ Pos(u) < Pos(t) => Ended(state, u)
                       /\ Pos(u) > Pos(t) =>
                             nStart[u] = 0 /\ get_task_status(state, u) = "pending"]_vars
    /\ [](\A t \in Tasks :
             (/\ wf.execution_strategy = "sequential"
              /\ ~wf.continue_on_failure
              /\ get_task_status(state, t) = "failed") =>
                 \A u \in Tasks :
                     Pos(u) > Pos(t) =>
                         /\ nStart[u] = 0 /\ calls[u] = 0
                         /\ Returned =>
                               /\ state.task_results[u].status = "skipped"
                               /\ state.task_results[u].error = ErrPrevFailed)

\* C29 witness: the sequential executor returned, the first task of three
\* failed and the two after it were skipped without a driver.
C29_Witness ==
    /\ Returned
    /\ wf.execution_strategy = "sequential"
    /\ Len(wf.tasks) = 3
    /\ state.task_results[wf.tasks[1]].status = "failed"
    /\ \A i \in 2..3 :
          /\ state.task_results[wf.tasks[i]].status = "skipped"
          /\ nStart[wf.tasks[i]] = 0

\* the three checks of the conditional executor for task t, in its order
CondChecks(t) ==
    << is_task_ready(state, t),
       wf.condition[t].set => evaluate_condition(state, t),
       ~(~wf.continue_on_failure /\ state.failed_tasks # {}) >>

CondReasons == <<ErrDeps, ErrCondition, ErrPrevFailed>>

\* the conditional executor takes the turn of the task at position xi
CondTurn == xpc = "conditional" /\ xi' = xi + 1

\* C30 (the turns): under the conditional executor the driver is invoked
\* for task T iff at T's turn every id in T.depends_on is completed, T's
\* condition (if any) evaluates true, and not (continue_on_failure is false
\* and some task has failed); otherwise T is skipped with the reason of the
\* first check that fails in the order dependencies, condition, fail-fast.
C30_Turns ==
    [][CondTurn =>
          LET T == wf.tasks[xi]
              failing == {k \in 1..3 : ~CondChecks(T)[k]}
              first == CHOOSE k \in failing : \A m \in failing : k <= m
          IN  IF failing = {}
              THEN /\ drivers' = Launch(<<T>>, 1)
                   /\ get_task_status(state', T) # "skipped"
              ELSE /\ drivers' = EmptyBag
                   /\ state'.task_results[T].status = "skipped"
                   /\ state'.task_results[T].error = CondReasons[first]]_vars

\* C30: the turns as above, and after the run no task is left in
\* pending_tasks.
C30_Conditional ==
    /\ C30_Turns
    /\ []((Returned /\ ~timedOut /\ wf.execution_strategy = "conditional") =>
             state.pending_tasks = {})

\* C21: with caching enabled, executing the same workflow a second time
\* makes no agent invocation, completes every task again, and records one
\* cache hit per task and no miss.
C21_SecondRunFromCache ==
    (/\ cache.on /\ run.n = 2 /\ run.first_completed
     /\ Returned /\ ~timedOut /\ drivers = EmptyBag) =>
        /\ \A t \in Tasks :
              calls[t] = 0 /\ state.task_results[t].status = "completed"
        /\ cache.hits = Len(wf.tasks)
        /\ cache.misses = 0

\* C22: with ttl_seconds set, under every strategy, a get never returns a
\* result that was put ttl_seconds or more earlier, also when the entry was
\* evicted from memory and promoted back from disk in between.
C22_TtlNeverExceeded ==
    [][(/\ cache'.op = "get"
        /\ cache'.ops = cache.ops + 1
        /\ cache.has_ttl
        /\ cache'.result # NoHit) =>
          cache'.now - cache'.result_put_at < cache.ttl_seconds]_vars

\* a call that put a key the memory cache did not hold into it: a put, or
\* a get that promoted a file
InsertedNewKey ==
    /\ cache'.op \in {"put", "get"}
    /\ cache'.ops = cache.ops + 1
    /\ cache'.key \notin DOMAIN cache.memory_cache
    /\ cache'.key \in DOMAIN cache'.memory_cache

\* the keys the step took out of the memory cache
Evicted == DOMAIN cache.memory_cache \ DOMAIN cache'.memory_cache

OutputForm(deps, d) == IF deps[d] = "-" THEN "-" ELSE Str(deps[d])

\* C24: after put(T, r, deps), a get(T, deps') hits iff include_dependencies
\* is false or, for every id in T.depends_on, the string form of its output
\* in deps' equals that in deps.
C24_HitIffDependenciesAgree ==
    [][(/\ cache'.op = "get"
        /\ cache'.ops = cache.ops + 1
        /\ StoredFor(cache, cache'.arg) # {}) =>
          (cache'.result # NoHit <=>
             \E k \in StoredFor(cache, cache'.arg) :
                \/ ~cache.include_dependencies
                \/ \A d \in Range(CacheTask(cache'.arg).depends_on) :
                      OutputForm(cache'.deps, d)
                          = OutputForm(cache.memory_cache[k].put_deps, d))]_vars

\* the hits, misses, evictions and invalidations counters of cache c
Counters(c) == <<c.hits, c.misses, c.evictions, c.invalidations>>

\* C25: a get on a cache whose strategy is not none adds one to exactly one
\* of hits and misses, to hits iff it returns a result; with strategy none
\* get returns None, put stores nothing and neither changes a counter.
C25_GetCountsOnce ==
    /\ [][(/\ cache'.op = "get"
            /\ cache'.ops = cache.ops + 1
            /\ cache.strategy # "none") =>
              IF cache'.result # NoHit
              THEN cache'.hits = cache.hits + 1 /\ cache'.misses = cache.misses
              ELSE cache'.hits = cache.hits /\ cache'.misses = cache.misses + 1]_vars
    /\ [][(/\ cache'.op \in {"get", "put"}
            /\ cache'.ops = cache.ops + 1
            /\ cache.strategy = "none") =>
              /\ cache'.op = "get" => cache'.result = NoHit
              /\ cache'.memory_cache = cache.memory_cache
              /\ cache'.disk = cache.disk
              /\ Counters(cache') = Counters(cache)]_vars

\* a get has missed on a file that could not be unpickled, after a hit
C25_Witness ==
    /\ cache.op = "get"
    /\ cache.result = NoHit
    /\ cache.hits = 1
    /\ cache.misses = 1
    /\ cache.key \in DOMAIN cache.disk
    /\ ~cache.disk[cache.key].readable

\* the tasks of w that task t reaches through depends_on in one or more
\* steps
TransitiveDeps(w, t) == ReachedFrom(w, t, Len(w.tasks)) \cap Range(w.tasks)

\* what get_dependency_chain returns in every workflow, cyclic ones
\* included: nothing for an id that names no task, and otherwise a
\* duplicate-free list of exactly the id and the tasks it reaches, the id
\* last
ChainMembers ==
    api.op = "get_dependency_chain" =>
        LET chain == api.ready IN
        IF api.ret \notin Range(wf.tasks) THEN chain = << >>
        ELSE /\ Cardinality(Range(chain)) = Len(chain)
             /\ Range(chain) = {api.ret} \cup TransitiveDeps(wf, api.ret)
             /\ chain[Len(chain)] = api.ret

\* every task of the chain comes after all of its own dependencies that
\* are tasks
ChainOrdered ==
    api.op = "get_dependency_chain" =>
        LET chain == api.ready IN
        \A i \in 1..Len(chain) :
            \A d \in Range(wf.depends_on[chain[i]]) \cap Range(wf.tasks) :
                \E j \in 1..(i - 1) : chain[j] = d

\* C31 as stated: for a task id of the workflow get_dependency_chain
\* returns a duplicate-free list of exactly the id and its transitive
\* dependencies, every task after all of its own dependencies and the id
\* last, and the empty list for an id that is not in the workflow.
C31_DependencyChain == ChainMembers /\ ChainOrdered

\* C31, amended: the members, the absence of duplicates and the place of
\* the id hold in every workflow, with the dependencies counted that are
\* tasks of the workflow; the order holds when the tasks the id reaches
\* are on no cycle.
C31_DependencyChainAcyclic ==
    /\ ChainMembers
    /\ (/\ api.op = "get_dependency_chain"
        /\ \A t \in {api.ret} \cup TransitiveDeps(wf, api.ret) :
              t \notin ReachedFrom(wf, t, Len(wf.tasks))) => ChainOrdered

\* the chain of a task that reaches a second task only through a third
C31_Witness ==
    /\ api.op = "get_dependency_chain"
    /\ Len(api.ready) = 3
    /\ api.ready[3] = api.ret
    /\ api.ready[2] \in Range(wf.depends_on[api.ret])
    /\ api.ready[1] \in Range(wf.depends_on[api.ready[2]])
    /\ api.ready[1] \notin Range(wf.depends_on[api.ret])
    /\ wf.depends_on[api.ready[1]] = << >>

\* C32: under the DAG executor, when an exception leaves the driver of task
\* T before a terminal status was recorded for T (T running, or T
\* retrying), T is in failed_tasks with status failed and the message of
\* the exception, in neither pending_tasks nor current_tasks, and is not
\* launched again.
C32_RaisedTaskFails ==
    \A i \in 1..Len(run.raised) :
        LET t == run.raised[i].task IN
        /\ t \in state.failed_tasks
        /\ state.task_results[t].status = "failed"
        /\ state.task_results[t].error = ErrCallback
        /\ t \notin state.pending_tasks
        /\ t \notin state.current_tasks
        /\ nStart[t] = run.raised[i].starts
        /\ \A d \in BagToSet(drivers) : d.task = t => d.pc = "done"

\* C33: for every acyclic workflow, every max_parallel_tasks, both values
\* of continue_on_failure, every retry configuration and every agent
\* behaviour in which each call returns or raises in the end,
\* DAGExecutor.execute driven by the coordinator's driver returns in the
\* end.
C33_DagReturns == <>(xpc = "returned")

RECURSIVE Power(_, _)
Power(b, e) == IF e = 0 THEN 1 ELSE b * Power(b, e - 1)

\* min(initial_delay * backoff_multiplier^(n-1), max_delay)
CappedDelay(rc, n) ==
    LET raw == rc.initial_delay * Power(rc.backoff_multiplier, n - 1)
    IN  IF raw < rc.max_delay THEN raw ELSE rc.max_delay

\* C34: the delay slept before the n-th retry of a task equals
\* min(initial_delay * backoff_multiplier^(n-1), max_delay), so that no
\* backoff sleep is longer than max_delay, for every accepted RetryConfig.
C34_BackoffDelay ==
    \A d \in BagToSet(drivers) : \A n \in 1..Len(d.slept) :
        /\ d.slept[n] = CappedDelay(wf.retry_config, n)
        /\ d.slept[n] <= wf.retry_config.max_delay

\* C35: every step of a workflow run that changes the result of a task (its
\* start, completion, retry, terminal failure or skip) or that makes
\* execute_workflow return ends with the progress callback called on the
\* state the step leaves.
C35_CallbackAfterTransition ==
    [][(\/ state'.task_results # state.task_results
        \/ xpc # "returned" /\ xpc' = "returned")
       => state'.seen = Snapshot(state')]_vars


\* C36: the prompt of every attempt of a task carries the dependency
\* outputs that the state held when the task's start_task ran.
C36_PromptContextFixed ==
    \A d \in BagToSet(drivers) : d.context = d.started


\* C37: a put of a key that the memory cache already holds takes no entry
\* out of the memory cache and leaves the eviction counter as it was,
\* whatever the number of entries.
C37_PutPresentKeyInPlace ==
    [][(/\ cache'.op = "put"
        /\ cache'.ops = cache.ops + 1
        /\ cache'.key \in DOMAIN cache.memory_cache) =>
          /\ Evicted = {}
          /\ cache'.evictions = cache.evictions]_vars


\* dependency results d1 and d2 hold the same output, or none, for every id
\* in the depends_on of the task
AgreeOnDependsOn(task, d1, d2) ==
    \A d \in Range(task.depends_on) : d1[d] = d2[d]

\* C38: dependency results that agree on the ids in a task's depends_on give
\* the task the same cache key: a get made with one of them hits on the
\* entry that a put made with the other has stored.
C38_KeyFromDependsOnOnly ==
    [][(/\ cache'.op = "get"
        /\ cache'.ops = cache.ops + 1
        /\ \E k \in StoredFor(cache, cache'.arg) :
              AgreeOnDependsOn(CacheTask(cache'.arg), cache'.deps,
                               cache.memory_cache[k].put_deps)) =>
          /\ cache'.key \in StoredFor(cache, cache'.arg)
          /\ cache'.result # NoHit]_vars


\* the decisions of kind decision in the approval history of engine e
Decided(e, decision) ==
    SelectSeq(e.approval_history, LAMBDA d : d.decision = decision)

\* C39: once approve has been accepted for every step of the chain, with no
\* rejection, the chain is complete: is_complete() and the is_complete of
\* get_approval_status are true, get_current_step() is None and no request
\* is pending.
C39_ChainCompleteAfterApprovals ==
    (/\ bpm.created
     /\ Len(Decided(bpm, "approved")) = Len(bpm.steps)
     /\ Decided(bpm, "rejected") = << >>) =>
        /\ is_complete(bpm)
        /\ get_approval_status(bpm, ProcessId).is_complete
        /\ get_current_step(bpm) = << >>
        /\ get_pending_approvals(bpm) = << >>
        /\ get_approval_status(bpm, ProcessId).pending_requests = 0

\* C40: a transition_state call that returns failure leaves state_name and
\* history of the process instance as they were, and the SLA that was
\* tracked for the process before the call is still tracked after it.
C40_FailedTransitionKeepsInstance ==
    [][(bpm'.op = "transition_state" /\ ~bpm'.ret.ok) =>
          /\ bpm'.state_name = bpm.state_name
          /\ bpm'.history = bpm.history
          /\ bpm'.active_slas = bpm.active_slas]_vars

====
